---- MODULE Spec2Model ----
(***************************************************************************)
(* Model of the ARIMA grid search (utils/arima_grid_search.py) and of the  *)
(* JSON-backed cache store (utils/cache_manager.py).                       *)
(*                                                                         *)
(* Python values are tagged records: [py |-> "None"], [py |-> "tuple",     *)
(* v |-> <<2,1,3>>], [py |-> "list", v |-> <<2,1,3>>], so that a tuple and *)
(* the list json.load returns for it are different values, as in Python.   *)
(***************************************************************************)
EXTENDS Integers, Sequences, FiniteSets, TLC

----------------------------------------------------------------------------
(* Bounds of the explored inputs                                           *)

MaxP == 2
MaxD == 2
MaxQ == 2
MaxCombos == 4
MaxAic == 2
MaxBudget == 3
MaxOps == 4
MaxArtOps == 2
MaxOrchOps == 2
MaxFailOps == 2
MaxDialogOps == 2
MaxVoteOps == 2
MaxPeerOps == 2

----------------------------------------------------------------------------
(* Python values                                                           *)

None == [py |-> "None"]
Tuple(s) == [py |-> "tuple", v |-> s]
List(s) == [py |-> "list", v |-> s]

\* np.inf, the initial best_aic; larger than every finite criterion value
inf == 1000000

\* range(0, n) as the sequence of its values
RangeSeq(n) == [i \in 1..n |-> i - 1]

----------------------------------------------------------------------------
(* State of one call of arima_grid_search                                  *)

VARIABLES
    ts_len,       \* len(ts), 0 for an empty series
    p_range,      \* sequences of candidate values
    d_range,
    q_range,
    max_params,   \* None or an integer (tagged)
    pc,           \* "start", "search", "done", "raised"
    idx,          \* position in the enumeration of the nested loops, from 1
    best_aic,
    best_params,
    best_model,
    fits,         \* log of the ARIMA(ts, order).fit() calls: order and outcome
    ret           \* the returned pair once pc = "done", None before

gvars == <<ts_len, p_range, d_range, q_range, max_params, pc, idx,
           best_aic, best_params, best_model, fits, ret>>

(* State of the cache store and of the files it reads                      *)
VARIABLES
    files,        \* content of each data file, or "missing"
    disk,         \* the cache file: [kind, doc]
    constructed,  \* CacheManager.__init__ has completed
    cache_data,   \* self.cache_data: cache key -> record
    nops,         \* operations performed so far; also the clock of now()
    hist          \* the last two operations, newest last

cvars == <<files, disk, constructed, cache_data, nops, hist>>

(* State of a second process that uses the same cache file                 *)
VARIABLES
    peer_data     \* self.cache_data of the other process, None without one

pvars == <<peer_data>>

vars == <<gvars, cvars, pvars>>

\* The forecasts a fit can produce over 10 steps, by coefficient of
\* variation (in units of 0.0001) and range (max - min)
FlatForecast == [cv |-> 1, range |-> 50]
VariedForecast == [cv |-> 5000, range |-> 80000]
Forecasts == {FlatForecast, VariedForecast}

AicValues == (1..MaxAic) \cup {inf}

\* What model.fit() can do for one order: raise, or return a fit handle
FitOutcomes == {[ok |-> FALSE]} \cup
               {[ok |-> TRUE, aic |-> a, forecast |-> f] :
                   a \in AicValues, f \in Forecasts}

\* The enumeration order of the three nested loops: p outer, d middle, q inner
Grid(pr, dr, qr) ==
    [n \in 1..(Len(pr) * Len(dr) * Len(qr)) |->
        <<pr[((n - 1) \div (Len(dr) * Len(qr))) + 1],
          dr[(((n - 1) \div Len(qr)) % Len(dr)) + 1],
          qr[((n - 1) % Len(qr)) + 1]>>]

candidates == Grid(p_range, d_range, q_range)

\* total_params = p + q + 1
total_params(order) == order[1] + order[3] + 1

\* OverBudget with the budget compared against p + q only
OverBudget_NoConstant(order) ==
    max_params.py # "None" /\ order[1] + order[3] > max_params.v

\* the guard of the `continue` of the budget check
OverBudget(order) ==
    max_params.py # "None" /\ total_params(order) > max_params.v

GridInit ==
    /\ ts_len \in {0, 184}
    /\ \E P \in 0..MaxP, D \in 0..MaxD, Q \in 0..MaxQ :
          /\ P * D * Q <= MaxCombos
          /\ p_range = RangeSeq(P)
          /\ d_range = RangeSeq(D)
          /\ q_range = RangeSeq(Q)
    /\ max_params \in {None} \cup {[py |-> "int", v |-> b] : b \in 0..MaxBudget}
    /\ pc = "start"
    /\ idx = 1
    /\ best_aic = inf
    /\ best_params = None
    /\ best_model = None
    /\ fits = <<>>
    /\ ret = None

\* Validate without the check of max_params
Validate_NoBudgetCheck ==
    /\ pc = "start"
    /\ IF ts_len = 0
         THEN pc' = "raised"
         ELSE pc' = "search"
    /\ UNCHANGED <<ts_len, p_range, d_range, q_range, max_params, idx,
                   best_aic, best_params, best_model, fits, ret>>
    /\ UNCHANGED <<cvars, pvars>>

\* Input validation; on success the running best is initialised
Validate ==
    /\ pc = "start"
    /\ IF ts_len = 0 \/ (max_params.py # "None" /\ max_params.v <= 0)
         THEN pc' = "raised"
         ELSE pc' = "search"
    /\ UNCHANGED <<ts_len, p_range, d_range, q_range, max_params, idx,
                   best_aic, best_params, best_model, fits, ret>>
    /\ UNCHANGED <<cvars, pvars>>

\* One iteration whose tuple exceeds the budget: continue without fitting
SkipCandidate ==
    /\ pc = "search"
    /\ idx <= Len(candidates)
    /\ OverBudget(candidates[idx])
    /\ idx' = idx + 1
    /\ UNCHANGED <<ts_len, p_range, d_range, q_range, max_params, pc,
                   best_aic, best_params, best_model, fits, ret>>
    /\ UNCHANGED <<cvars, pvars>>

\* UpdateBest without the comparison: the last successful fit wins
UpdateBest_Always(aic) == TRUE

\* UpdateBest with <= : a later equal criterion replaces the best
UpdateBest_OrEqual(aic) == aic <= best_aic

\* the update of the running best on a successful fit
UpdateBest(aic) == aic < best_aic

\* FitFail without the try/except: the exception leaves the function
FitFail_Propagates ==
    /\ pc = "search"
    /\ idx <= Len(candidates)
    /\ ~OverBudget(candidates[idx])
    /\ fits' = Append(fits, [order |-> candidates[idx], out |-> [ok |-> FALSE]])
    /\ pc' = "raised"
    /\ UNCHANGED <<ts_len, p_range, d_range, q_range, max_params, idx,
                   best_aic, best_params, best_model, ret>>
    /\ UNCHANGED <<cvars, pvars>>

\* FitFail with `break` in place of `continue`: the rest of the inner loop
\* over q is left out
FitFail_Break ==
    /\ pc = "search"
    /\ idx <= Len(candidates)
    /\ ~OverBudget(candidates[idx])
    /\ fits' = Append(fits, [order |-> candidates[idx], out |-> [ok |-> FALSE]])
    /\ idx' = idx + Len(q_range) - ((idx - 1) % Len(q_range))
    /\ UNCHANGED <<ts_len, p_range, d_range, q_range, max_params, pc,
                   best_aic, best_params, best_model, ret>>
    /\ UNCHANGED <<cvars, pvars>>

\* One iteration whose fit raises: the except branch continues
FitFail ==
    /\ pc = "search"
    /\ idx <= Len(candidates)
    /\ ~OverBudget(candidates[idx])
    /\ fits' = Append(fits, [order |-> candidates[idx], out |-> [ok |-> FALSE]])
    /\ idx' = idx + 1
    /\ UNCHANGED <<ts_len, p_range, d_range, q_range, max_params, pc,
                   best_aic, best_params, best_model, ret>>
    /\ UNCHANGED <<cvars, pvars>>

\* FitSuccess that keeps the earlier fit handle when the best is replaced
FitSuccess_StaleModel ==
    /\ pc = "search"
    /\ idx <= Len(candidates)
    /\ ~OverBudget(candidates[idx])
    /\ \E out \in FitOutcomes :
          /\ out.ok
          /\ fits' = Append(fits, [order |-> candidates[idx], out |-> out])
          /\ IF UpdateBest(out.aic)
               THEN /\ best_aic' = out.aic
                    /\ best_params' = Tuple(candidates[idx])
                    /\ best_model' = IF best_model = None
                                       THEN [py |-> "fit", order |-> candidates[idx],
                                             aic |-> out.aic, forecast |-> out.forecast]
                                       ELSE best_model
               ELSE UNCHANGED <<best_aic, best_params, best_model>>
    /\ idx' = idx + 1
    /\ UNCHANGED <<ts_len, p_range, d_range, q_range, max_params, pc, ret>>
    /\ UNCHANGED <<cvars, pvars>>

\* One iteration whose fit succeeds
FitSuccess ==
    /\ pc = "search"
    /\ idx <= Len(candidates)
    /\ ~OverBudget(candidates[idx])
    /\ \E out \in FitOutcomes :
          /\ out.ok
          /\ fits' = Append(fits, [order |-> candidates[idx], out |-> out])
          /\ IF UpdateBest(out.aic)
               THEN /\ best_aic' = out.aic
                    /\ best_params' = Tuple(candidates[idx])
                    /\ best_model' = [py |-> "fit", order |-> candidates[idx],
                                      aic |-> out.aic, forecast |-> out.forecast]
               ELSE UNCHANGED <<best_aic, best_params, best_model>>
    /\ idx' = idx + 1
    /\ UNCHANGED <<ts_len, p_range, d_range, q_range, max_params, pc, ret>>
    /\ UNCHANGED <<cvars, pvars>>

\* The loops are exhausted: return best_params, best_model
Return ==
    /\ pc = "search"
    /\ idx > Len(candidates)
    /\ pc' = "done"
    /\ ret' = [py |-> "pair", params |-> best_params, model |-> best_model]
    /\ UNCHANGED <<ts_len, p_range, d_range, q_range, max_params, idx,
                   best_aic, best_params, best_model, fits>>
    /\ UNCHANGED <<cvars, pvars>>

----------------------------------------------------------------------------
(* The grid search alone: the cache store is not touched                   *)

CacheIdle ==
    /\ files = [f \in {} |-> "missing"]
    /\ disk = [kind |-> "missing", doc |-> [k \in {} |-> None]]
    /\ constructed = FALSE
    /\ cache_data = [k \in {} |-> None]
    /\ nops = 0
    /\ hist = <<>>

\* no second process
PeerIdle == peer_data = None

Init == GridInit /\ CacheIdle /\ PeerIdle

Next ==
    \/ Validate
    \/ SkipCandidate
    \/ FitFail
    \/ FitSuccess
    \/ Return

Spec == Init /\ [][Next]_vars

\* The sequential loop always takes its next step
FairSpec == Init /\ [][Next]_vars /\ WF_vars(Next)

----------------------------------------------------------------------------
(* Properties of the grid search                                           *)

\* The degeneracy gate of the specification: a 10-step forecast is
\* near-constant when its CV is below 0.001 or its range is below 1000
CvThreshold == 10
RangeFloor == 1000
Degenerate(forecast) ==
    forecast.cv < CvThreshold \/ forecast.range < RangeFloor

Admissible(order) ==
    max_params.py = "None" \/ order[1] + order[3] + 1 <= max_params.v

FitOrders == [i \in DOMAIN fits |-> fits[i].order]
OkFits == {i \in DOMAIN fits : fits[i].out.ok}
NonePair == [py |-> "pair", params |-> None, model |-> None]

\* lexicographic order of (p, d, q): the order of the nested loops over
\* ascending ranges
Before(a, b) ==
    \/ a[1] < b[1]
    \/ a[1] = b[1] /\ a[2] < b[2]
    \/ a[1] = b[1] /\ a[2] = b[2] /\ a[3] < b[3]

\* C1: a fit is attempted only for tuples with p + q + 1 <= max_params, and
\* the running best and the returned tuple are within the budget
C1_BudgetInvariant ==
    /\ \A i \in DOMAIN fits : Admissible(fits[i].order)
    /\ best_params # None => Admissible(best_params.v)
    /\ (pc = "done" /\ ret.params # None) => Admissible(ret.params.v)

C1_Witness ==
    /\ pc = "done"
    /\ ret.params # None
    /\ Len(fits) >= 2
    /\ \E n \in DOMAIN candidates : ~Admissible(candidates[n])

C3_DegenerateNeverBest ==
    /\ best_model # None => ~Degenerate(best_model.forecast)
    /\ (pc = "done" /\ ret.model # None) => ~Degenerate(ret.model.forecast)

\* C4: the returned tuple is the first one in enumeration order (p outer,
\* d middle, q inner) among the successful fits with the minimal criterion;
\* a later fit with an equal criterion does not replace the best
C4_FirstSeenTieBreak ==
    /\ \A i, j \in DOMAIN fits : i < j => Before(fits[i].order, fits[j].order)
    /\ best_params # None =>
          \E i \in OkFits :
             /\ fits[i].order = best_params.v
             /\ fits[i].out.aic = best_aic
             /\ best_model.order = fits[i].order
             /\ \A j \in OkFits : j < i => fits[j].out.aic # best_aic
    /\ (pc = "done" /\ ret.params # None) =>
          \A j \in OkFits :
             fits[j].out.aic = ret.model.aic =>
                (fits[j].order = ret.params.v \/ Before(ret.params.v, fits[j].order))

C4_Witness ==
    /\ pc = "done"
    /\ ret.params # None
    /\ \E i, j \in OkFits :
          /\ i < j
          /\ fits[i].out.aic = fits[j].out.aic
          /\ fits[i].out.aic = ret.model.aic
          /\ fits[i].order = ret.params.v
          /\ fits[i].order[2] # fits[j].order[2]

AllFitsFailed == OkFits = {}
Finished == pc \in {"done", "raised"}
ValidInput == ts_len > 0 /\ (max_params.py = "None" \/ max_params.v > 0)

\* C5 as stated, for a call on a non-empty series: whenever every
\* admissible candidate's fit fails, or no tuple is admissible, the call
\* returns (None, None) and does not raise
C5_Original ==
    (Finished /\ ts_len > 0 /\ AllFitsFailed) => (pc = "done" /\ ret = NonePair)

\* C5 amended: for a non-empty series and max_params absent or positive,
\* the call never raises and returns (None, None) when every admissible fit
\* fails or no tuple is admissible; it raises only for an empty series or
\* max_params <= 0, and then before any fit
C5_NoCandidateOutcome ==
    /\ ValidInput => pc # "raised"
    /\ (pc = "done" /\ AllFitsFailed) => ret = NonePair
    /\ pc = "raised" => (~ValidInput /\ fits = <<>>)
    /\ (Finished /\ ~ValidInput) => pc = "raised"

C5_Witness ==
    /\ pc = "done"
    /\ Len(fits) >= 2
    /\ AllFitsFailed
    /\ ret = NonePair

\* a step that logs a failed fit changes nothing of the running best and
\* moves to the next tuple
C6_FailStep ==
    (Len(fits') = Len(fits) + 1 /\ ~fits'[Len(fits')].out.ok) =>
        /\ best_aic' = best_aic
        /\ best_params' = best_params
        /\ best_model' = best_model
        /\ pc' = "search"
        /\ idx' = idx + 1

\* C6: a failing fit never aborts the search and leaves the running best
\* (tuple, model, criterion) unchanged; at return every admissible tuple,
\* also those after a failure, has been fit
C6_FitFailureContained ==
    /\ [][C6_FailStep]_vars
    /\ [](\A i \in DOMAIN fits : ~fits[i].out.ok => pc # "raised")
    /\ [](pc = "done" =>
            \A n \in DOMAIN candidates :
               Admissible(candidates[n]) =>
                  \E i \in DOMAIN fits : fits[i].order = candidates[n])

C6_Witness ==
    /\ pc = "done"
    /\ \E i, j \in DOMAIN fits :
          /\ i < j
          /\ ~fits[i].out.ok
          /\ fits[j].out.ok
          /\ ret.params # None

\* C7: the search terminates, and at return the fits attempted are exactly
\* the admissible tuples of the Cartesian product, each once, in order
C7_ExhaustiveAndTerminates ==
    /\ [](pc = "done" => FitOrders = SelectSeq(candidates, Admissible))
    /\ <>Finished

C7_Witness ==
    /\ pc = "done"
    /\ Len(fits) >= 3
    /\ Len(fits) < Len(candidates)
    /\ \E i \in OkFits : i < Len(fits) /\ fits[i].out.aic = 1

----------------------------------------------------------------------------
(* The cache store: CacheManager of utils/cache_manager.py                 *)

\* Data files: two paths with the same basename in different directories,
\* and one with another basename
F1 == [dir |-> "a", name |-> "x.csv"]
F2 == [dir |-> "b", name |-> "x.csv"]
F3 == [dir |-> "a", name |-> "y.csv"]
DataFiles == {F1, F2, F3}

\* File contents; "c3" differs from "c1" but has the same first 8 hex digits
\* of the MD5 digest
Contents == {"c1", "c2", "c3"}

\* hashlib.md5(content).hexdigest()[:8]
Hash8(c) == CASE c = "c1" -> "h1"
              [] c = "c2" -> "h2"
              [] c = "c3" -> "h1"

EmptyDict == [k \in {} |-> None]

\* dict d with d[k] = v set
DictSet(d, k, v) == [x \in (DOMAIN d) \cup {k} |-> IF x = k THEN v ELSE d[x]]

\* DictDel that drops every key: the whole store is emptied
DictDel_All(d, k) == [x \in {} |-> d[x]]

\* dict d with key k deleted
DictDel(d, k) == [x \in (DOMAIN d) \ {k} |-> d[x]]

\* d.get(k)
DictGet(d, k) == IF k \in DOMAIN d THEN d[k] ELSE None

\* What json.dump writes for the record map: tuples become JSON arrays,
\* which json.load returns as lists
ToJson(data) ==
    [k \in DOMAIN data |->
        [fld \in DOMAIN data[k] |->
            IF fld = "best_params" THEN List(data[k][fld].v) ELSE data[k][fld]]]

\* round(x, 2) for x = num / den, as a number of hundredths: Python rounds
\* to nearest, ties to even
RoundHalfEven(num, den) ==
    LET q == num \div den
        r == num % den
    IN  IF 2 * r < den THEN q
        ELSE IF 2 * r > den THEN q + 1
        ELSE IF q % 2 = 0 THEN q ELSE q + 1

\* ParamRatio without the factor 100: a fraction instead of a percentage
ParamRatio_Fraction(tp, dl) == RoundHalfEven(tp * 100, dl)

\* round(total_params / data_length * 100, 2), in hundredths
ParamRatio(tp, dl) == RoundHalfEven(tp * 10000, dl)

\* _get_file_hash with the prefix taken of the digest
FileHash8(f) == IF files[f] = "missing" THEN None
                ELSE [py |-> "str", v |-> Hash8(files[f])]

\* get_cache_key keyed by the file name alone
get_cache_key_NameOnly(f) ==
    IF files[f] = "missing" THEN None
    ELSE [py |-> "key", name |-> f.name, hash |-> "h1"]

\* get_cache_key keyed by the directory of the path in place of the basename
get_cache_key_WithDir(f) ==
    IF files[f] = "missing" THEN None
    ELSE [py |-> "key", name |-> f.dir, hash |-> Hash8(files[f])]

\* get_cache_key: None for a missing file, else "<basename>_<hash[:8]>"
get_cache_key(f) ==
    IF files[f] = "missing" THEN None
    ELSE IF FileHash8(f) = None THEN None
    ELSE [py |-> "key", name |-> f.name, hash |-> FileHash8(f).v]

get_cached_params(f) ==
    LET cache_key == get_cache_key(f)
    IN  IF cache_key = None THEN None ELSE DictGet(cache_data, cache_key)

is_cache_valid(f) ==
    LET cache_key == get_cache_key(f)
    IN  IF cache_key = None THEN FALSE ELSE cache_key \in DOMAIN cache_data

\* The values save_params is called with: best_aic in hundredths
ParamInputs ==
    {[best_params |-> Tuple(<<2, 1, 3>>), best_aic |-> 123456,
      total_params |-> 6, data_length |-> 184],
     [best_params |-> Tuple(<<1, 0, 1>>), best_aic |-> 98700,
      total_params |-> 3, data_length |-> 32]}

\* _load_cache: the record map read, or the exception that escapes
_load_cache ==
    CASE disk.kind = "missing" -> [raised |-> "no", data |-> EmptyDict]
      [] disk.kind = "json" -> [raised |-> "no", data |-> disk.doc]
      [] disk.kind = "truncated" -> [raised |-> "no", data |-> EmptyDict]
      [] disk.kind = "garbage" -> [raised |-> "UnicodeDecodeError", data |-> EmptyDict]

\* the history keeps the last two operations
Push(e) ==
    hist' = IF Len(hist) < 2 THEN Append(hist, e) ELSE Append(Tail(hist), e)

GridIdle ==
    /\ ts_len = 0
    /\ p_range = <<>>
    /\ d_range = <<>>
    /\ q_range = <<>>
    /\ max_params = None
    /\ pc = "idle"
    /\ idx = 1
    /\ best_aic = inf
    /\ best_params = None
    /\ best_model = None
    /\ fits = <<>>
    /\ ret = None

CacheInit ==
    /\ \E c \in {"c1", "c2"} :
          files = [f \in DataFiles |-> IF f = F2 THEN c ELSE "c1"]
    /\ disk \in {[kind |-> k, doc |-> EmptyDict] : k \in {"missing", "truncated", "garbage"}}
    /\ constructed = FALSE
    /\ cache_data = EmptyDict
    /\ nops = 0
    /\ hist = <<>>

\* CacheManager.__init__: the store is loaded from the cache file
CacheManager_init ==
    /\ ~constructed
    /\ hist = <<>>
    /\ LET l == _load_cache
       IN  /\ constructed' = (l.raised = "no")
           /\ cache_data' = l.data
           /\ Push([op |-> "__init__", raised |-> l.raised, kind |-> disk.kind])
    /\ UNCHANGED <<files, disk, nops>>
    /\ UNCHANGED <<gvars, pvars>>

\* refresh_cache: self.cache_data = self._load_cache()
refresh_cache ==
    /\ constructed
    /\ nops < MaxOps
    /\ LET l == _load_cache
       IN  /\ cache_data' = IF l.raised = "no" THEN l.data ELSE cache_data
           /\ Push([op |-> "refresh_cache", raised |-> l.raised, kind |-> disk.kind])
    /\ nops' = nops + 1
    /\ UNCHANGED <<files, disk, constructed>>
    /\ UNCHANGED <<gvars, pvars>>

\* save_params that merges the parameter fields into the record of the key
save_params_Merge ==
    /\ constructed
    /\ nops < MaxOps
    /\ \E f \in DataFiles, in \in ParamInputs :
          LET cache_key == get_cache_key(f)
              cache_info == [best_params |-> in.best_params,
                             best_aic |-> in.best_aic,
                             total_params |-> in.total_params,
                             data_length |-> in.data_length,
                             param_ratio |-> ParamRatio(in.total_params, in.data_length),
                             timestamp |-> nops,
                             data_file |-> f]
              old == IF cache_key \in DOMAIN cache_data
                       THEN cache_data[cache_key] ELSE cache_info
              merged == [fld \in DOMAIN old \cup DOMAIN cache_info |->
                            IF fld \in DOMAIN cache_info THEN cache_info[fld]
                            ELSE old[fld]]
          IN  /\ Push([op |-> "save_params", f |-> f, args |-> in,
                       key |-> cache_key, ts |-> nops])
              /\ IF cache_key = None
                   THEN UNCHANGED <<cache_data, disk>>
                   ELSE /\ cache_data' = DictSet(cache_data, cache_key, merged)
                        /\ disk' = [kind |-> "json", doc |-> ToJson(cache_data')]
    /\ nops' = nops + 1
    /\ UNCHANGED <<files, constructed>>
    /\ UNCHANGED <<gvars, pvars>>

\* save_params: skipped without a key; else the record is replaced and the
\* whole map is written to the cache file
save_params ==
    /\ constructed
    /\ nops < MaxOps
    /\ \E f \in DataFiles, in \in ParamInputs :
          LET cache_key == get_cache_key(f)
              cache_info == [best_params |-> in.best_params,
                             best_aic |-> in.best_aic,
                             total_params |-> in.total_params,
                             data_length |-> in.data_length,
                             param_ratio |-> ParamRatio(in.total_params, in.data_length),
                             timestamp |-> nops,
                             data_file |-> f]
          IN  /\ Push([op |-> "save_params", f |-> f, args |-> in,
                       key |-> cache_key, ts |-> nops])
              /\ IF cache_key = None
                   THEN UNCHANGED <<cache_data, disk>>
                   ELSE /\ cache_data' = DictSet(cache_data, cache_key, cache_info)
                        /\ disk' = [kind |-> "json", doc |-> ToJson(cache_data')]
    /\ nops' = nops + 1
    /\ UNCHANGED <<files, constructed>>
    /\ UNCHANGED <<gvars, pvars>>

\* clear_cache that deletes every record of the path's basename, whatever
\* content hash its key carries
clear_cache_ByName ==
    /\ constructed
    /\ nops < MaxOps
    /\ \E target \in DataFiles \cup {None} :
          /\ Push([op |-> "clear_cache", f |-> target])
          /\ IF target = None
               THEN cache_data' = EmptyDict
               ELSE cache_data' = [k \in {x \in DOMAIN cache_data : x.name # target.name}
                                      |-> cache_data[k]]
          /\ disk' = [kind |-> "json", doc |-> ToJson(cache_data')]
    /\ nops' = nops + 1
    /\ UNCHANGED <<files, constructed>>
    /\ UNCHANGED <<gvars, pvars>>

\* clear_cache(None) empties the store, clear_cache(f) deletes the record of
\* f's key; the map is written in every case
clear_cache ==
    /\ constructed
    /\ nops < MaxOps
    /\ \E target \in DataFiles \cup {None} :
          /\ Push([op |-> "clear_cache", f |-> target])
          /\ IF target = None
               THEN cache_data' = EmptyDict
               ELSE LET cache_key == get_cache_key(target)
                    IN  IF cache_key # None /\ cache_key \in DOMAIN cache_data
                          THEN cache_data' = DictDel(cache_data, cache_key)
                          ELSE cache_data' = cache_data
          /\ disk' = [kind |-> "json", doc |-> ToJson(cache_data')]
    /\ nops' = nops + 1
    /\ UNCHANGED <<files, constructed>>
    /\ UNCHANGED <<gvars, pvars>>

\* The environment rewrites, deletes or creates a data file
ModifyFile ==
    /\ constructed
    /\ nops < MaxOps
    /\ \E f \in DataFiles, c \in Contents \cup {"missing"} :
          /\ c # files[f]
          /\ files' = [files EXCEPT ![f] = c]
          /\ Push([op |-> "ModifyFile", f |-> f, old |-> files[f], new |-> c])
    /\ nops' = nops + 1
    /\ UNCHANGED <<disk, constructed, cache_data>>
    /\ UNCHANGED <<gvars, pvars>>

\* The cache file is damaged from outside: truncated JSON text, or bytes
\* that are not UTF-8
CorruptCacheFile ==
    /\ constructed
    /\ nops < MaxOps
    /\ \E k \in {"truncated", "garbage"} :
          /\ disk' = [kind |-> k, doc |-> EmptyDict]
          /\ Push([op |-> "CorruptCacheFile", kind |-> k])
    /\ nops' = nops + 1
    /\ UNCHANGED <<files, constructed, cache_data>>
    /\ UNCHANGED <<gvars, pvars>>

InitCache == GridIdle /\ CacheInit /\ PeerIdle

NextCache ==
    \/ CacheManager_init
    \/ refresh_cache
    \/ save_params
    \/ clear_cache
    \/ ModifyFile
    \/ CorruptCacheFile

SpecCache == InitCache /\ [][NextCache]_vars

----------------------------------------------------------------------------
(* Properties of the cache store                                           *)

Last(h) == h[Len(h)]
Prev(h) == h[Len(h) - 1]

\* the last operation was a save_params for an existing file
JustSaved ==
    /\ constructed
    /\ hist # <<>>
    /\ Last(hist).op = "save_params"
    /\ files[Last(hist).f] # "missing"

SavedThenChanged ==
    /\ constructed
    /\ Len(hist) >= 2
    /\ Prev(hist).op = "save_params"
    /\ Prev(hist).key # None
    /\ Last(hist).op = "ModifyFile"
    /\ Last(hist).f = Prev(hist).f
    /\ Last(hist).new # "missing"
    /\ Hash8(Last(hist).new) # Hash8(Last(hist).old)

\* the same basename and the same content give the same key
KeyByNameAndContent ==
    \A f, g \in DataFiles :
        (f.name = g.name /\ files[f] = files[g]) => get_cache_key(f) = get_cache_key(g)

\* is_cache_valid(f) is true exactly when a record exists under the key of
\* f's current content
ValidIffRecord ==
    \A f \in DataFiles :
        is_cache_valid(f) <=>
            (files[f] # "missing" /\
             \E k \in DOMAIN cache_data :
                 k.name = f.name /\ k.hash = Hash8(files[f]))

\* C9 as stated: after save_params(f) a content change that changes the hash
\* prefix makes is_cache_valid(f) false and get_cached_params(f) absent
C9_Original ==
    /\ KeyByNameAndContent
    /\ ValidIffRecord
    /\ SavedThenChanged =>
          (~is_cache_valid(Last(hist).f) /\ get_cached_params(Last(hist).f) = None)

\* C9 amended: the key depends only on basename and content; validity is
\* the existence of a record under the current key; after save_params(f) a
\* hash-changing content change makes the saved record unreachable through
\* f: get_cached_params(f) is absent and is_cache_valid(f) false, unless a
\* record stored before that save exists under the new key, which is then
\* the one returned
C9_FingerprintInvalidation ==
    /\ KeyByNameAndContent
    /\ ValidIffRecord
    /\ SavedThenChanged =>
          LET f == Last(hist).f
              r == get_cached_params(f)
          IN  /\ get_cache_key(f) # Prev(hist).key
              /\ \/ (r = None /\ ~is_cache_valid(f))
                 \/ (r # None /\ is_cache_valid(f) /\ r.timestamp < Prev(hist).ts)

C9_Witness ==
    /\ SavedThenChanged
    /\ ~is_cache_valid(Last(hist).f)
    /\ get_cached_params(Last(hist).f) = None
    /\ Prev(hist).key \in DOMAIN cache_data

\* the last operation loaded the store from a cache file that is not a
\* valid JSON document
LoadedCorrupt ==
    /\ hist # <<>>
    /\ Last(hist).op \in {"__init__", "refresh_cache"}
    /\ Last(hist).kind \in {"truncated", "garbage"}

\* C10: loading a cache file that is not valid JSON raises nothing and
\* leaves an empty store
C10_CorruptionRecovery ==
    LoadedCorrupt =>
        /\ Last(hist).raised = "no"
        /\ constructed
        /\ cache_data = EmptyDict

----------------------------------------------------------------------------
(* Clearing                                                                *)

\* the records of store d other than the one of file t's current content
OtherRecords(d, t) ==
    {x \in DOMAIN d :
        ~(files[t] # "missing" /\ x.name = t.name /\ x.hash = Hash8(files[t]))}

\* a step of clear_cache: with a path, exactly the record under the key of
\* the path's current content goes and the others stay as they were; with
\* no path the store is empty; the file holds the store afterwards
C11_ClearStep ==
    (nops' = nops + 1 /\ Last(hist').op = "clear_cache") =>
        LET t == Last(hist').f
        IN  /\ IF t = None
                 THEN cache_data' = EmptyDict
                 ELSE /\ DOMAIN cache_data' = OtherRecords(cache_data, t)
                      /\ \A x \in DOMAIN cache_data' : cache_data'[x] = cache_data[x]
            /\ disk'.kind = "json"
            /\ disk'.doc = ToJson(cache_data')

----------------------------------------------------------------------------
(* Artifact entries of the cache store: images and CSV files               *)

\* Paths of generated artifacts; `files` tells whether each exists
P1 == [dir |-> "output", name |-> "one"]
P2 == [dir |-> "output", name |-> "two"]
ArtifactPaths == {P1, P2}

\* The data files the artifact operations are called with
ArtFiles == {F1, F3}

ImageTypes == {"trend", "prediction"}
CsvTypes == {"prediction", "other"}

\* path and description of one save call
ArtInputs == {[path |-> P1, description |-> "d1"],
              [path |-> P2, description |-> "d2"]}

\* Path(p).exists()
PathExists(p) == files[p] # "missing"

\* dict.get(k, {})
DictGetOrEmpty(d, k) == IF k \in DOMAIN d THEN d[k] ELSE EmptyDict

\* the store after an artifact save: the record and the sub-map are created
\* when absent and the entry of the label is set
WithEntry(data, cache_key, kind, label, info) ==
    LET rec0 == DictGetOrEmpty(data, cache_key)
        sub0 == DictGetOrEmpty(rec0, kind)
    IN  DictSet(data, cache_key, DictSet(rec0, kind, DictSet(sub0, label, info)))

\* the store with the existence flag of one entry set
WithFlag(data, cache_key, kind, label, flag) ==
    LET entry == data[cache_key][kind][label]
    IN  WithEntry(data, cache_key, kind, label, DictSet(entry, "exists", flag))

Written(data) == [kind |-> "json", doc |-> ToJson(data)]

\* SaveArtifact that keeps the entry a label already has
SaveArtifact_KeepFirst(op, kind, f, label, in) ==
    LET cache_key == get_cache_key(f)
        info == [path |-> in.path, type |-> label,
                 description |-> in.description,
                 timestamp |-> nops, exists |-> PathExists(in.path)]
        sub0 == DictGetOrEmpty(DictGetOrEmpty(cache_data, cache_key), kind)
    IN  /\ Push([op |-> op, f |-> f, label |-> label, args |-> in,
                 key |-> cache_key, ts |-> nops])
        /\ IF cache_key = None
             THEN UNCHANGED <<cache_data, disk>>
             ELSE /\ cache_data' =
                        IF label \in DOMAIN sub0 THEN cache_data
                        ELSE WithEntry(cache_data, cache_key, kind, label, info)
                  /\ disk' = Written(cache_data')

\* SaveArtifact that replaces the whole sub-map by the new entry
SaveArtifact_ReplaceSubmap(op, kind, f, label, in) ==
    LET cache_key == get_cache_key(f)
        info == [path |-> in.path, type |-> label,
                 description |-> in.description,
                 timestamp |-> nops, exists |-> PathExists(in.path)]
    IN  /\ Push([op |-> op, f |-> f, label |-> label, args |-> in,
                 key |-> cache_key, ts |-> nops])
        /\ IF cache_key = None
             THEN UNCHANGED <<cache_data, disk>>
             ELSE /\ cache_data' =
                        DictSet(cache_data, cache_key,
                                DictSet(DictGetOrEmpty(cache_data, cache_key), kind,
                                        DictSet(EmptyDict, label, info)))
                  /\ disk' = Written(cache_data')

\* SaveArtifact that writes the file before the entry is set
SaveArtifact_WriteFirst(op, kind, f, label, in) ==
    LET cache_key == get_cache_key(f)
        info == [path |-> in.path, type |-> label,
                 description |-> in.description,
                 timestamp |-> nops, exists |-> PathExists(in.path)]
    IN  /\ Push([op |-> op, f |-> f, label |-> label, args |-> in,
                 key |-> cache_key, ts |-> nops])
        /\ IF cache_key = None
             THEN UNCHANGED <<cache_data, disk>>
             ELSE /\ cache_data' = WithEntry(cache_data, cache_key, kind, label, info)
                  /\ disk' = Written(cache_data)

\* SaveArtifact that goes on with an empty key when the file is missing
SaveArtifact_NoKeyCheck(op, kind, f, label, in) ==
    LET cache_key == get_cache_key(f)
        used == IF cache_key = None
                  THEN [py |-> "key", name |-> f.name, hash |-> ""]
                  ELSE cache_key
        info == [path |-> in.path, type |-> label,
                 description |-> in.description,
                 timestamp |-> nops, exists |-> PathExists(in.path)]
    IN  /\ Push([op |-> op, f |-> f, label |-> label, args |-> in,
                 key |-> cache_key, ts |-> nops])
        /\ cache_data' = WithEntry(cache_data, used, kind, label, info)
        /\ disk' = Written(cache_data')

\* the body shared by save_image_cache (kind "images") and save_csv_cache
\* (kind "csv_files")
SaveArtifact(op, kind, f, label, in) ==
    LET cache_key == get_cache_key(f)
        info == [path |-> in.path, type |-> label,
                 description |-> in.description,
                 timestamp |-> nops, exists |-> PathExists(in.path)]
    IN  /\ Push([op |-> op, f |-> f, label |-> label, args |-> in,
                 key |-> cache_key, ts |-> nops])
        /\ IF cache_key = None
             THEN UNCHANGED <<cache_data, disk>>
             ELSE /\ cache_data' = WithEntry(cache_data, cache_key, kind, label, info)
                  /\ disk' = Written(cache_data')

save_image_cache ==
    /\ constructed
    /\ nops < MaxArtOps
    /\ \E f \in ArtFiles, image_type \in ImageTypes, in \in ArtInputs :
          SaveArtifact("save_image_cache", "images", f, image_type, in)
    /\ nops' = nops + 1
    /\ UNCHANGED <<files, constructed>>
    /\ UNCHANGED <<gvars, pvars>>

save_csv_cache ==
    /\ constructed
    /\ nops < MaxArtOps
    /\ \E f \in ArtFiles, csv_type \in CsvTypes, in \in ArtInputs :
          SaveArtifact("save_csv_cache", "csv_files", f, csv_type, in)
    /\ nops' = nops + 1
    /\ UNCHANGED <<files, constructed>>
    /\ UNCHANGED <<gvars, pvars>>

\* get_image_cache: the stored entry, as it is
get_image_cache(f, image_type) ==
    LET cache_key == get_cache_key(f)
    IN  IF cache_key = None THEN None
        ELSE DictGet(DictGetOrEmpty(DictGetOrEmpty(cache_data, cache_key), "images"),
                     image_type)

\* get_all_image_cache: the stored sub-map, as it is
get_all_image_cache(f) ==
    LET cache_key == get_cache_key(f)
    IN  IF cache_key = None THEN EmptyDict
        ELSE DictGetOrEmpty(DictGetOrEmpty(cache_data, cache_key), "images")

\* the entry get_csv_cache looks up, None when there is none
CsvEntry(f, csv_type) ==
    LET cache_key == get_cache_key(f)
    IN  IF cache_key = None \/ cache_key \notin DOMAIN cache_data THEN None
        ELSE IF "csv_files" \notin DOMAIN cache_data[cache_key] THEN None
        ELSE IF csv_type \notin DOMAIN cache_data[cache_key]["csv_files"] THEN None
        ELSE cache_data[cache_key]["csv_files"][csv_type]

\* what get_csv_cache returns: the entry with its flag re-checked
get_csv_cache_result(f, csv_type) ==
    LET e == CsvEntry(f, csv_type)
    IN  IF e = None THEN None ELSE DictSet(e, "exists", PathExists(e.path))

\* get_csv_cache: the flag of the entry is re-checked, and the store written
\* when it changed
get_csv_cache ==
    /\ constructed
    /\ nops < MaxArtOps
    /\ \E f \in ArtFiles, csv_type \in CsvTypes :
          LET e == CsvEntry(f, csv_type)
          IN  /\ Push([op |-> "get_csv_cache", f |-> f, label |-> csv_type,
                       ret |-> get_csv_cache_result(f, csv_type)])
              /\ IF e # None /\ e.exists # PathExists(e.path)
                   THEN /\ cache_data' = WithFlag(cache_data, get_cache_key(f),
                                                  "csv_files", csv_type, PathExists(e.path))
                        /\ disk' = Written(cache_data')
                   ELSE UNCHANGED <<cache_data, disk>>
    /\ nops' = nops + 1
    /\ UNCHANGED <<files, constructed>>
    /\ UNCHANGED <<gvars, pvars>>

\* the sub-map get_all_csv_cache works on, empty when there is none
CsvSubmap(f) ==
    LET cache_key == get_cache_key(f)
    IN  IF cache_key = None \/ cache_key \notin DOMAIN cache_data THEN EmptyDict
        ELSE IF "csv_files" \notin DOMAIN cache_data[cache_key] THEN EmptyDict
        ELSE cache_data[cache_key]["csv_files"]

\* the sub-map with every flag re-checked
Rechecked(sub) ==
    [t \in DOMAIN sub |-> DictSet(sub[t], "exists", PathExists(sub[t].path))]

\* get_all_csv_cache: every flag is re-checked in memory; the test for a
\* change runs after the flags were updated, so it finds none and the store
\* is not written
get_all_csv_cache ==
    /\ constructed
    /\ nops < MaxArtOps
    /\ \E f \in ArtFiles :
          LET sub == CsvSubmap(f)
              cache_key == get_cache_key(f)
              changed == \E t \in DOMAIN Rechecked(sub) :
                            Rechecked(sub)[t].exists # PathExists(Rechecked(sub)[t].path)
          IN  /\ Push([op |-> "get_all_csv_cache", f |-> f, ret |-> Rechecked(sub)])
              /\ IF sub # EmptyDict
                   THEN cache_data' =
                          DictSet(cache_data, cache_key,
                                  DictSet(cache_data[cache_key], "csv_files", Rechecked(sub)))
                   ELSE cache_data' = cache_data
              /\ IF changed THEN disk' = Written(cache_data') ELSE disk' = disk
    /\ nops' = nops + 1
    /\ UNCHANGED <<files, constructed>>
    /\ UNCHANGED <<gvars, pvars>>

\* check_image_exists: the flag of the image entry is re-checked, and the
\* store written when it changed
check_image_exists ==
    /\ constructed
    /\ nops < MaxArtOps
    /\ \E f \in ArtFiles, image_type \in ImageTypes :
          LET image_cache == get_image_cache(f, image_type)
          IN  IF image_cache = None
                THEN /\ Push([op |-> "check_image_exists", f |-> f, label |-> image_type,
                              ret |-> [path |-> None, exists |-> FALSE]])
                     /\ UNCHANGED <<cache_data, disk>>
                ELSE /\ Push([op |-> "check_image_exists", f |-> f, label |-> image_type,
                              ret |-> [path |-> image_cache.path,
                                       exists |-> PathExists(image_cache.path)]])
                     /\ IF image_cache.exists # PathExists(image_cache.path)
                          THEN /\ cache_data' = WithFlag(cache_data, get_cache_key(f),
                                                         "images", image_type,
                                                         PathExists(image_cache.path))
                               /\ disk' = Written(cache_data')
                          ELSE UNCHANGED <<cache_data, disk>>
    /\ nops' = nops + 1
    /\ UNCHANGED <<files, constructed>>
    /\ UNCHANGED <<gvars, pvars>>

\* An artifact file is created or deleted
TogglePath ==
    /\ constructed
    /\ nops < MaxArtOps
    /\ \E p \in ArtifactPaths :
          /\ files' = [files EXCEPT ![p] = IF files[p] = "missing" THEN "c1" ELSE "missing"]
          /\ Push([op |-> "TogglePath", f |-> p])
    /\ nops' = nops + 1
    /\ UNCHANGED <<disk, constructed, cache_data>>
    /\ UNCHANGED <<gvars, pvars>>

\* A store written by an earlier run: one record for F1's content "c1" with
\* parameters, one image and one CSV entry, both flagged as existing
PriorKey == [py |-> "key", name |-> "x.csv", hash |-> "h1"]
PriorStore ==
    DictSet(EmptyDict, PriorKey,
        [best_params |-> List(<<2, 1, 3>>), best_aic |-> 123456,
         total_params |-> 6, data_length |-> 184, param_ratio |-> 326,
         timestamp |-> -1, data_file |-> F1,
         images |-> DictSet(EmptyDict, "trend",
                       [path |-> P1, type |-> "trend", description |-> "d1",
                        timestamp |-> -1, exists |-> TRUE]),
         csv_files |-> DictSet(EmptyDict, "prediction",
                       [path |-> P2, type |-> "prediction", description |-> "d2",
                        timestamp |-> -1, exists |-> TRUE])])

\* The state after construction over a cache file that is missing or was
\* written by an earlier run
ArtInit ==
    /\ \E c3 \in {"c1", "missing"}, e1 \in {"c1", "missing"}, e2 \in {"c1", "missing"} :
          files = [f \in DataFiles \cup ArtifactPaths |->
                      IF f = F3 THEN c3
                      ELSE IF f = P1 THEN e1
                      ELSE IF f = P2 THEN e2
                      ELSE "c1"]
    /\ \E doc \in {EmptyDict, PriorStore} :
          /\ disk = [kind |-> "json", doc |-> doc]
          /\ cache_data = doc
    /\ constructed = TRUE
    /\ nops = 0
    /\ hist = <<>>

\* the operations of the first model, within the depth of this one
Art_save_params == nops < MaxArtOps /\ save_params
Art_clear_cache == nops < MaxArtOps /\ clear_cache
Art_refresh_cache == nops < MaxArtOps /\ refresh_cache

InitArt == GridIdle /\ ArtInit /\ PeerIdle

NextArt ==
    \/ save_image_cache
    \/ save_csv_cache
    \/ get_csv_cache
    \/ get_all_csv_cache
    \/ check_image_exists
    \/ TogglePath
    \/ Art_save_params
    \/ Art_clear_cache
    \/ Art_refresh_cache

SpecArt == InitArt /\ [][NextArt]_vars

----------------------------------------------------------------------------
(* Claims about the artifact entries                                        *)

\* the last two operations were the same save operation for the same file
\* and label, with different paths
SavedTwice(op) ==
    /\ Len(hist) = 2
    /\ Prev(hist).op = op
    /\ Last(hist).op = op
    /\ Prev(hist).f = Last(hist).f
    /\ Prev(hist).label = Last(hist).label
    /\ Prev(hist).args.path # Last(hist).args.path
    /\ Last(hist).key # None

\* the entry carries the path and description of the last save
IsLatest(e) ==
    /\ e # None
    /\ e.path = Last(hist).args.path
    /\ e.description = Last(hist).args.description

\* C12: artifact upsert. For either artifact kind and any label, after an entry
\* was saved twice for the same file and label with different paths, the
\* sub-map holds one entry for that label and the getter for that label returns
\* the path and description of the latest save; the sub-map has no entry
\* with the earlier path under that label.
C12_ArtifactUpsert ==
    /\ SavedTwice("save_image_cache") =>
          /\ IsLatest(get_image_cache(Last(hist).f, Last(hist).label))
          /\ Last(hist).label \in DOMAIN get_all_image_cache(Last(hist).f)
          /\ get_all_image_cache(Last(hist).f)[Last(hist).label].path
                # Prev(hist).args.path
    /\ SavedTwice("save_csv_cache") =>
          /\ IsLatest(get_csv_cache_result(Last(hist).f, Last(hist).label))
          /\ Last(hist).label \in DOMAIN CsvSubmap(Last(hist).f)
          /\ CsvSubmap(Last(hist).f)[Last(hist).label].path # Prev(hist).args.path

C12_Witness ==
    /\ SavedTwice("save_csv_cache")
    /\ get_csv_cache_result(Last(hist).f, Last(hist).label).path = Last(hist).args.path
    /\ Cardinality(DOMAIN CsvSubmap(Last(hist).f)) = 1

----------------------------------------------------------------------------
(* Write-through                                                            *)

SaveOps == {"save_params", "save_image_cache", "save_csv_cache"}

\* the operation of event e is a completed mutating operation
Mutating(e) == e.op \in SaveOps \/ e.op = "clear_cache"

\* the operation of event e reached its call of _save_cache: clear_cache always
\* does, a save does when the cache key could be computed
Wrote(e) == e.op = "clear_cache" \/ (e.op \in SaveOps /\ e.key # None)

\* C13 as stated: after every completed mutating operation the content of the
\* JSON file equals the whole in-memory record map.
C13_Original ==
    (hist # <<>> /\ Mutating(Last(hist))) =>
        (disk.kind = "json" /\ disk.doc = cache_data)

C13_Step ==
    /\ (nops' = nops + 1 /\ Wrote(Last(hist'))) => disk' = Written(cache_data')
    /\ (nops' = nops + 1 /\ Last(hist').op = "refresh_cache"
            /\ hist # <<>> /\ Wrote(Last(hist))) =>
          /\ cache_data' = ToJson(cache_data)
          /\ disk' = disk

\* C13: write-through. After every mutating operation that reaches the write
\* (clear_cache, and a save whose cache key could be computed) the file holds
\* the JSON form of the whole in-memory record map; refresh_cache() right after
\* it yields that JSON form, which is the same map with every best_params
\* tuple turned into the list of its elements, and leaves the file as it is.
C13_WriteThrough == [][C13_Step]_vars

C13_Witness ==
    /\ Len(hist) = 2
    /\ Prev(hist).op = "save_params"
    /\ Prev(hist).key # None
    /\ Last(hist).op = "refresh_cache"
    /\ Prev(hist).key \in DOMAIN cache_data
    /\ cache_data[Prev(hist).key].best_params = List(Prev(hist).args.best_params.v)
    /\ disk = Written(cache_data)

----------------------------------------------------------------------------
(* Data file missing or unreadable                                          *)

\* every getter called with a file whose key cannot be computed answers absent
DegradedGetters(f) ==
    /\ get_cache_key(f) = None
    /\ get_cached_params(f) = None
    /\ ~is_cache_valid(f)
    /\ get_all_image_cache(f) = EmptyDict
    /\ Rechecked(CsvSubmap(f)) = EmptyDict
    /\ \A t \in ImageTypes : get_image_cache(f, t) = None
    /\ \A t \in CsvTypes : get_csv_cache_result(f, t) = None

\* the operation of event e was called with a data file that is missing
OnMissingFile(e) ==
    /\ e.op \in SaveOps \cup {"clear_cache", "get_csv_cache", "get_all_csv_cache",
                              "check_image_exists"}
    /\ e.f \in DataFiles
    /\ files[e.f] = "missing"

C14_Step ==
    (nops' = nops + 1 /\ OnMissingFile(Last(hist'))) =>
        /\ cache_data' = cache_data
        /\ Last(hist').op \in SaveOps => (Last(hist').key = None /\ disk' = disk)
        /\ Last(hist').op \in {"get_csv_cache", "get_all_csv_cache"} =>
              Last(hist').ret \in {None, EmptyDict}
        /\ Last(hist').op = "check_image_exists" =>
              Last(hist').ret = [path |-> None, exists |-> FALSE]

\* C14: when the data file is missing or unreadable, get_cached_params,
\* get_image_cache and get_csv_cache return absent, the get-all getters return
\* an empty map, is_cache_valid returns false, and save_params,
\* save_image_cache, save_csv_cache and clear_cache(f) leave every record of the
\* store unchanged.
C14_KeyUnavailable ==
    /\ [](\A f \in DataFiles : files[f] = "missing" => DegradedGetters(f))
    /\ [][C14_Step]_vars

C14_Witness ==
    /\ hist # <<>>
    /\ Last(hist).op = "save_csv_cache"
    /\ files[Last(hist).f] = "missing"
    /\ Last(hist).key = None
    /\ cache_data = PriorStore
    /\ DegradedGetters(Last(hist).f)

----------------------------------------------------------------------------
(* Existence flags returned by the artifact getters                         *)

\* the existence flag of entry e tells whether its path exists now
FlagFresh(e) == e.exists = PathExists(e.path)

\* a get_csv_cache step returns a fresh flag and writes the store when the
\* stored flag differed
C18_CsvStep ==
    (nops' = nops + 1 /\ Last(hist').op = "get_csv_cache"
        /\ Last(hist').ret # None) =>
        LET e == CsvEntry(Last(hist').f, Last(hist').label)
        IN  /\ Last(hist').ret.exists = PathExists(Last(hist').ret.path)
            /\ ~FlagFresh(e) => disk' = Written(cache_data')
            /\ cache_data'[get_cache_key(Last(hist').f)]["csv_files"][Last(hist').label].exists
                  = PathExists(e.path)

\* C18: for both artifact kinds the single-entry getter (get_image_cache,
\* get_csv_cache) returns an entry whose existence flag equals whether the
\* recorded path exists at the time of the call, and when the flag differs from
\* the stored one the refreshed flag is written to the cache file.
C18_GetterRefreshesFlag ==
    /\ [](\A f \in ArtFiles, t \in ImageTypes :
            get_image_cache(f, t) # None => FlagFresh(get_image_cache(f, t)))
    /\ [][C18_CsvStep]_vars

\* a get_all_csv_cache step returns fresh flags and, when one changed, leaves
\* the file equal to the store
C19_CsvStep ==
    (nops' = nops + 1 /\ Last(hist').op = "get_all_csv_cache") =>
        /\ \A t \in DOMAIN Last(hist').ret : FlagFresh(Last(hist').ret[t])
        /\ cache_data' # cache_data => disk' = Written(cache_data')

\* C19: for both artifact kinds the whole-sub-map getter (get_all_image_cache,
\* get_all_csv_cache) returns a sub-map in which every entry's existence flag
\* equals whether its path exists at the time of the call, and whenever at
\* least one flag changed the refreshed flags are persisted, so that the cache
\* file equals the in-memory store afterwards.
C19_GetAllRefreshesFlags ==
    /\ [](\A f \in ArtFiles : \A t \in DOMAIN get_all_image_cache(f) :
            FlagFresh(get_all_image_cache(f)[t]))
    /\ [][C19_CsvStep]_vars

----------------------------------------------------------------------------
(* Orchestration: get_or_search_best_arima_params, its helper and the       *)
(* script's main                                                            *)

\* parameters besides self that the methods declare, none with a default
get_cached_params_Params == 1
save_params_Params == 5

\* positional arguments the call sites pass
GetCachedParamsArgs_Orchestration == 2
SaveParamsArgs_Orchestration == 6
SaveParamsArgs_Script == 5

\* a Python call binds when the arguments passed fill exactly the parameters
\* declared; otherwise it raises TypeError before the body runs
Accepts(params, given) == given = params

\* ARIMA_CONFIG['param_limits']
ConfigMaxParams == 10
ParamRatioPercent == 5

Min2(a, b) == IF a < b THEN a ELSE b

\* BudgetOf that never goes below one parameter
BudgetOf_AtLeastOne(data_length) ==
    IF (data_length * ParamRatioPercent) \div 100 < 1 THEN 1
    ELSE Min2(ConfigMaxParams, (data_length * ParamRatioPercent) \div 100)

\* min(max_params, int(data_length * param_ratio))
BudgetOf(data_length) ==
    Min2(ConfigMaxParams, (data_length * ParamRatioPercent) \div 100)

SeriesTypes == {"purchase", "redeem"}
OrchFiles == {F1, F3}

\* Training series, each with its length and what the grid search finds on it:
\* the winning order and its criterion value, or no candidate
OrchSeries ==
    {[data_length |-> 184,
      found |-> [best_params |-> Tuple(<<2, 1, 3>>), best_aic |-> 123456]],
     [data_length |-> 60,
      found |-> [best_params |-> Tuple(<<1, 0, 1>>), best_aic |-> 98700]],
     [data_length |-> 184, found |-> None],
     [data_length |-> 10, found |-> None]}

\* the grid search runs to its end on series s: it is not refused at entry
Searchable(s) == s.data_length > 0 /\ BudgetOf(s.data_length) > 0

\* the store after the body of save_params
SaveParamsStore(data, f, in, ts) ==
    LET cache_key == get_cache_key(f)
    IN  IF cache_key = None THEN data
        ELSE DictSet(data, cache_key,
                     [best_params |-> in.best_params,
                      best_aic |-> in.best_aic,
                      total_params |-> in.total_params,
                      data_length |-> in.data_length,
                      param_ratio |-> ParamRatio(in.total_params, in.data_length),
                      timestamp |-> ts,
                      data_file |-> f])

\* the cache file after save_params: written unless the key is missing
SaveParamsDisk(data, f) ==
    IF get_cache_key(f) = None THEN disk ELSE Written(data)

\* The search-and-save part shared by _search_and_cache_arima_params and the
\* script's main, on store `data`, with `given` arguments passed to
\* save_params: how it ends, what it returns, and the store and file it leaves
SearchAndSave(data, f, s, given) ==
    IF ~Searchable(s)
      THEN [raised |-> "ValueError", ret |-> None, searched |-> TRUE,
            data |-> data, disk |-> disk]
    ELSE IF s.found = None
      THEN [raised |-> "no", ret |-> None, searched |-> TRUE,
            data |-> data, disk |-> disk]
    ELSE IF ~Accepts(save_params_Params, given)
      THEN [raised |-> "TypeError", ret |-> None, searched |-> TRUE,
            data |-> data, disk |-> disk]
    ELSE LET total == s.found.best_params.v[1] + s.found.best_params.v[3] + 1
             saved == SaveParamsStore(data, f,
                                      [best_params |-> s.found.best_params,
                                       best_aic |-> s.found.best_aic,
                                       total_params |-> total,
                                       data_length |-> s.data_length], nops)
         IN  [raised |-> "no", ret |-> s.found.best_params, searched |-> TRUE,
              data |-> saved, disk |-> SaveParamsDisk(saved, f)]

\* get_or_search_best_arima_params: refresh, look up, search and save on a
\* miss
GetOrSearch(f, s) ==
    LET l == _load_cache
        refreshed == IF l.raised = "no" THEN l.data ELSE cache_data
        cache_key == get_cache_key(f)
        cached_info == IF cache_key = None THEN None ELSE DictGet(refreshed, cache_key)
    IN  IF l.raised # "no"
          THEN [raised |-> l.raised, ret |-> None, searched |-> FALSE,
                data |-> cache_data, disk |-> disk]
        ELSE IF ~Accepts(get_cached_params_Params, GetCachedParamsArgs_Orchestration)
          THEN [raised |-> "TypeError", ret |-> None, searched |-> FALSE,
                data |-> refreshed, disk |-> disk]
        ELSE IF cached_info # None /\ "best_params" \in DOMAIN cached_info
          THEN [raised |-> "no", ret |-> cached_info.best_params, searched |-> FALSE,
                data |-> refreshed, disk |-> disk]
        ELSE SearchAndSave(refreshed, f, s, SaveParamsArgs_Orchestration)

\* the step of an orchestration call that ends as outcome o
Finish(op, f, s, series_type, o) ==
    /\ Push([op |-> op, f |-> f, series |-> s, series_type |-> series_type,
             raised |-> o.raised, ret |-> o.ret, searched |-> o.searched])
    /\ cache_data' = o.data
    /\ disk' = o.disk

get_or_search_best_arima_params ==
    /\ constructed
    /\ nops < MaxOrchOps
    /\ \E f \in OrchFiles, s \in OrchSeries, series_type \in SeriesTypes :
          Finish("get_or_search_best_arima_params", f, s, series_type, GetOrSearch(f, s))
    /\ nops' = nops + 1
    /\ UNCHANGED <<files, constructed>>
    /\ UNCHANGED <<gvars, pvars>>

_search_and_cache_arima_params ==
    /\ constructed
    /\ nops < MaxOrchOps
    /\ \E f \in OrchFiles, s \in OrchSeries, series_type \in SeriesTypes :
          Finish("_search_and_cache_arima_params", f, s, series_type,
                 SearchAndSave(cache_data, f, s, SaveParamsArgs_Orchestration))
    /\ nops' = nops + 1
    /\ UNCHANGED <<files, constructed>>
    /\ UNCHANGED <<gvars, pvars>>

\* main of script/arima_param_search.py: pd.read_csv raises for a missing data
\* file; else search and save, nothing returned
main ==
    /\ constructed
    /\ nops < MaxOrchOps
    /\ \E f \in OrchFiles, s \in OrchSeries :
          LET o == SearchAndSave(cache_data, f, s, SaveParamsArgs_Script)
          IN  IF files[f] = "missing"
                THEN Finish("main", f, s, None,
                            [raised |-> "FileNotFoundError", ret |-> None,
                             searched |-> FALSE, data |-> cache_data, disk |-> disk])
                ELSE Finish("main", f, s, None, [o EXCEPT !.ret = None])
    /\ nops' = nops + 1
    /\ UNCHANGED <<files, constructed>>
    /\ UNCHANGED <<gvars, pvars>>

\* a Python string as a value that can stand where None can
Str(s) == [py |-> "str", v |-> s]

\* A caller invokes cache_manager.save_params, with a series type as last
\* argument or without one
call_save_params ==
    /\ constructed
    /\ nops < MaxOrchOps
    /\ \E f \in OrchFiles, in \in ParamInputs,
          series_type \in {Str(t) : t \in SeriesTypes} \cup {None} :
          LET given == IF series_type = None THEN 5 ELSE 6
              ok == Accepts(save_params_Params, given)
              saved == SaveParamsStore(cache_data, f, in, nops)
          IN  /\ Push([op |-> "save_params", f |-> f, args |-> in,
                       series_type |-> series_type,
                       raised |-> IF ok THEN "no" ELSE "TypeError",
                       key |-> get_cache_key(f), ts |-> nops])
              /\ cache_data' = IF ok THEN saved ELSE cache_data
              /\ disk' = IF ok THEN SaveParamsDisk(saved, f) ELSE disk
    /\ nops' = nops + 1
    /\ UNCHANGED <<files, constructed>>
    /\ UNCHANGED <<gvars, pvars>>

\* A caller invokes cache_manager.get_cached_params, with a series type as
\* last argument or without one
call_get_cached_params(f, series_type) ==
    LET given == IF series_type = None THEN 1 ELSE 2
    IN  IF Accepts(get_cached_params_Params, given)
          THEN [raised |-> "no", ret |-> get_cached_params(f)]
          ELSE [raised |-> "TypeError", ret |-> None]

\* The state after the module-level CacheManager was constructed over a cache
\* file that is missing or was written by an earlier run
OrchInit ==
    /\ \E c3 \in {"c1", "missing"} :
          files = [f \in DataFiles |-> IF f = F3 THEN c3 ELSE "c1"]
    /\ \E d \in {[kind |-> "missing", doc |-> EmptyDict],
                 [kind |-> "json", doc |-> PriorStore]} :
          /\ disk = d
          /\ cache_data = d.doc
    /\ constructed = TRUE
    /\ nops = 0
    /\ hist = <<>>

InitOrch == GridIdle /\ OrchInit /\ PeerIdle

NextOrch ==
    \/ get_or_search_best_arima_params
    \/ _search_and_cache_arima_params
    \/ main
    \/ call_save_params
    \/ Art_clear_cache

SpecOrch == InitOrch /\ [][NextOrch]_vars

----------------------------------------------------------------------------
(* Claims about the orchestration                                           *)

\* event e is a call of get_or_search_best_arima_params for a readable file
\* with a series on which the grid search finds a winner
SearchWins(e) ==
    /\ e.op = "get_or_search_best_arima_params"
    /\ files[e.f] # "missing"
    /\ Searchable(e.series)
    /\ e.series.found # None

\* C15: get-or-search data flow. A call of get_or_search_best_arima_params for
\* a readable file and a series with a winning candidate returns a parameter
\* triple; when it got it from a search after a cache miss, the result has
\* been written through the cache store, and a following call for the same
\* file (content unchanged, cache not cleared) and the same series type
\* returns the same triple from the cache without running the grid search.
C15_GetOrSearchDataFlow ==
    /\ (hist # <<>> /\ SearchWins(Last(hist))) =>
          /\ Last(hist).raised = "no"
          /\ Last(hist).ret # None
          /\ Last(hist).searched =>
                /\ Last(hist).ret = Last(hist).series.found.best_params
                /\ is_cache_valid(Last(hist).f)
                /\ get_cached_params(Last(hist).f).best_params = Last(hist).ret
    /\ (Len(hist) = 2 /\ SearchWins(Prev(hist)) /\ SearchWins(Last(hist))
            /\ Prev(hist).f = Last(hist).f
            /\ Prev(hist).series_type = Last(hist).series_type
            /\ Prev(hist).raised = "no" /\ Prev(hist).searched) =>
          /\ Last(hist).raised = "no"
          /\ ~Last(hist).searched
          /\ Last(hist).ret.v = Prev(hist).ret.v

\* the last two operations were save_params calls for the same readable file,
\* the first with series type 'purchase', the second with 'redeem'
SavedBothSeries ==
    /\ Len(hist) = 2
    /\ Prev(hist).op = "save_params"
    /\ Last(hist).op = "save_params"
    /\ Prev(hist).series_type = Str("purchase")
    /\ Last(hist).series_type = Str("redeem")
    /\ Prev(hist).f = Last(hist).f
    /\ Last(hist).key # None

\* the lookup for the series type returns the parameters of save event e
Returns(f, series_type, e) ==
    LET r == call_get_cached_params(f, Str(series_type))
    IN  /\ r.raised = "no"
        /\ r.ret # None
        /\ r.ret.best_params.v = e.args.best_params.v
        /\ r.ret.best_aic = e.args.best_aic

\* C16: per-series slots. After save_params(f, ..., 'purchase') followed by
\* save_params(f, ..., 'redeem') for the same unchanged file, both calls have
\* completed, get_cached_params(f, 'purchase') returns the purchase parameters
\* and get_cached_params(f, 'redeem') the redeem parameters.
C16_SeriesSlots ==
    SavedBothSeries =>
        /\ Prev(hist).raised = "no"
        /\ Last(hist).raised = "no"
        /\ Returns(Last(hist).f, "purchase", Prev(hist))
        /\ Returns(Last(hist).f, "redeem", Last(hist))

\* event e is an orchestration call on whose series the grid search runs and
\* accepts no candidate
SearchExhausted(e) ==
    /\ e.op \in {"get_or_search_best_arima_params", "_search_and_cache_arima_params",
                 "main"}
    /\ files[e.f] # "missing"
    /\ Searchable(e.series)
    /\ e.series.found = None

C17_Step ==
    (nops' = nops + 1 /\ SearchExhausted(Last(hist'))) =>
        /\ Last(hist').raised = "no"
        /\ Last(hist').ret = None
        /\ disk' = disk
        /\ cache_data' \in {cache_data, _load_cache.data}

\* C17: search-exhausted propagation. When the grid search accepts no candidate
\* for the series, the orchestration (get_or_search_best_arima_params,
\* _search_and_cache_arima_params, the script's main) returns or reports an
\* absent result without raising and writes nothing: the cache file is
\* unchanged and the store holds what it held, or what the refresh at the
\* start of get_or_search_best_arima_params loaded.
C17_SearchExhausted == [][C17_Step]_vars

\* the helper and the script's main alone do what C17 says
C17_HelperAndMainStep ==
    (nops' = nops + 1 /\ SearchExhausted(Last(hist'))
        /\ Last(hist').op # "get_or_search_best_arima_params") =>
        /\ Last(hist').raised = "no"
        /\ Last(hist').ret = None
        /\ disk' = disk
        /\ cache_data' = cache_data
C17_HelperAndMain == [][C17_HelperAndMainStep]_vars

----------------------------------------------------------------------------
(* File writes that fail                                                    *)

\* How a call of _save_cache can end: the file is written; open() fails and
\* the file stays as it was; the write breaks off after open() truncated the
\* file, leaving a prefix of the text; the prefix ends inside a multi-byte
\* character
WriteOutcomes == {"ok", "open_failed", "partial", "partial_midchar"}
FailedWrites == WriteOutcomes \ {"ok"}

\* descriptions that hold characters outside ASCII (json.dump is called with
\* ensure_ascii=False, so they are written as multi-byte UTF-8)
NonAsciiText == {"d2"}

\* the text of the store holds a character outside ASCII
HasNonAscii(data) ==
    \E k \in DOMAIN data : \E kind \in {"images", "csv_files"} \cap DOMAIN data[k] :
        \E t \in DOMAIN data[k][kind] : data[k][kind][t].description \in NonAsciiText

\* the outcomes possible when `data` is written
OutcomesFor(data) ==
    IF HasNonAscii(data) THEN WriteOutcomes ELSE WriteOutcomes \ {"partial_midchar"}

\* _save_cache on store `data` ending as w: the IOError is caught and printed,
\* the store is kept, the file is what the failed write left
AfterWrite(data, w) ==
    CASE w = "ok" -> [data |-> data, disk |-> Written(data)]
      [] w = "open_failed" -> [data |-> data, disk |-> disk]
      [] w = "partial" -> [data |-> data, disk |-> [kind |-> "truncated", doc |-> EmptyDict]]
      [] w = "partial_midchar" -> [data |-> data, disk |-> [kind |-> "garbage", doc |-> EmptyDict]]

\* save_params whose write may fail
save_params_io ==
    /\ constructed
    /\ nops < MaxFailOps
    /\ \E f \in OrchFiles, in \in ParamInputs :
          LET cache_key == get_cache_key(f)
              saved == SaveParamsStore(cache_data, f, in, nops)
          IN  IF cache_key = None
                THEN /\ Push([op |-> "save_params", f |-> f, args |-> in,
                              key |-> cache_key, ts |-> nops, write |-> "none"])
                     /\ UNCHANGED <<cache_data, disk>>
                ELSE \E w \in OutcomesFor(saved) :
                        /\ Push([op |-> "save_params", f |-> f, args |-> in,
                                 key |-> cache_key, ts |-> nops, write |-> w])
                        /\ cache_data' = AfterWrite(saved, w).data
                        /\ disk' = AfterWrite(saved, w).disk
    /\ nops' = nops + 1
    /\ UNCHANGED <<files, constructed>>
    /\ UNCHANGED <<gvars, pvars>>

\* save_image_cache whose write may fail
save_image_cache_io ==
    /\ constructed
    /\ nops < MaxFailOps
    /\ \E f \in OrchFiles, in \in ArtInputs :
          LET cache_key == get_cache_key(f)
              info == [path |-> in.path, type |-> "trend",
                       description |-> in.description,
                       timestamp |-> nops, exists |-> PathExists(in.path)]
              saved == WithEntry(cache_data, cache_key, "images", "trend", info)
          IN  IF cache_key = None
                THEN /\ Push([op |-> "save_image_cache", f |-> f, label |-> "trend",
                              args |-> in, key |-> cache_key, ts |-> nops,
                              write |-> "none"])
                     /\ UNCHANGED <<cache_data, disk>>
                ELSE \E w \in OutcomesFor(saved) :
                        /\ Push([op |-> "save_image_cache", f |-> f, label |-> "trend",
                                 args |-> in, key |-> cache_key, ts |-> nops,
                                 write |-> w])
                        /\ cache_data' = AfterWrite(saved, w).data
                        /\ disk' = AfterWrite(saved, w).disk
    /\ nops' = nops + 1
    /\ UNCHANGED <<files, constructed>>
    /\ UNCHANGED <<gvars, pvars>>

\* clear_cache() whose write may fail
clear_cache_io ==
    /\ constructed
    /\ nops < MaxFailOps
    /\ \E w \in WriteOutcomes \ {"partial_midchar"} :
          /\ Push([op |-> "clear_cache", f |-> None, write |-> w])
          /\ cache_data' = AfterWrite(EmptyDict, w).data
          /\ disk' = AfterWrite(EmptyDict, w).disk
    /\ nops' = nops + 1
    /\ UNCHANGED <<files, constructed>>
    /\ UNCHANGED <<gvars, pvars>>

Fail_refresh_cache == nops < MaxFailOps /\ refresh_cache

InitFail == GridIdle /\ ArtInit /\ PeerIdle

NextFail ==
    \/ save_params_io
    \/ save_image_cache_io
    \/ clear_cache_io
    \/ Fail_refresh_cache

SpecFail == InitFail /\ [][NextFail]_vars

\* event e is a save whose update reached the store and whose write failed
FailedSave(e) ==
    /\ e.op \in {"save_params", "save_image_cache"}
    /\ e.write \in FailedWrites

\* the update of save event e is what the getter returns
Visible(e) ==
    IF e.op = "save_params"
      THEN /\ get_cached_params(e.f) # None
           /\ "best_params" \in DOMAIN get_cached_params(e.f)
           /\ get_cached_params(e.f).timestamp = e.ts
           /\ get_cached_params(e.f).best_params = e.args.best_params
      ELSE /\ get_image_cache(e.f, e.label) # None
           /\ get_image_cache(e.f, e.label).timestamp = e.ts
           /\ get_image_cache(e.f, e.label).path = e.args.path

\* C20: save failure is non-fatal and memory-only. When the file write inside
\* a mutating operation fails with an I/O error, the in-memory store keeps the
\* update and a following get returns it; the refresh_cache() that follows
\* completes, reloads the disk content and discards the update.
C20_SaveFailureMemoryOnly ==
    /\ (hist # <<>> /\ FailedSave(Last(hist))) => Visible(Last(hist))
    /\ (Len(hist) = 2 /\ FailedSave(Prev(hist)) /\ Last(hist).op = "refresh_cache") =>
          /\ Last(hist).raised = "no"
          /\ cache_data = _load_cache.data
          /\ ~Visible(Prev(hist))

\* what holds of C20 whatever the failed write left: the update is visible
\* after the failure, and the refresh discards it unless the file cannot be
\* decoded
C20_ExceptUndecodable ==
    /\ (hist # <<>> /\ FailedSave(Last(hist))) => Visible(Last(hist))
    /\ (Len(hist) = 2 /\ FailedSave(Prev(hist)) /\ Last(hist).op = "refresh_cache"
            /\ Prev(hist).write # "partial_midchar") =>
          /\ Last(hist).raised = "no"
          /\ cache_data = _load_cache.data
          /\ ~Visible(Prev(hist))

----------------------------------------------------------------------------
(* The running best of the grid search                                      *)

\* absent together, present together, and the handle is the fit of the tuple
BestConsistent ==
    /\ best_params = None <=> best_model = None
    /\ best_model = None <=> best_aic = inf
    /\ best_params # None =>
          /\ best_model.order = best_params.v
          /\ best_model.aic = best_aic
          /\ \E i \in OkFits : fits[i].order = best_params.v /\ fits[i].out.aic = best_aic
    /\ pc = "done" => (ret.params = best_params /\ ret.model = best_model)

\* the successful fits whose criterion is below +infinity
FiniteFits == {i \in OkFits : fits[i].out.aic < inf}

----------------------------------------------------------------------------
(* The grid search called with the budget the orchestration computes        *)

\* lengths of the training series: empty, below, at and above the length
\* whose budget is one parameter
SeriesLengths == {0, 10, 19, 20, 60, 184}

BudgetInit ==
    /\ ts_len \in SeriesLengths
    /\ \E P \in 0..MaxP, D \in 0..MaxD, Q \in 0..MaxQ :
          /\ P * D * Q <= MaxCombos
          /\ p_range = RangeSeq(P)
          /\ d_range = RangeSeq(D)
          /\ q_range = RangeSeq(Q)
    /\ max_params = None
    /\ pc = "budget"
    /\ idx = 1
    /\ best_aic = inf
    /\ best_params = None
    /\ best_model = None
    /\ fits = <<>>
    /\ ret = None

\* data_length = len(ts_train); max_params = min(10, int(0.05 * data_length));
\* then arima_grid_search is called with it
ComputeBudget ==
    /\ pc = "budget"
    /\ max_params' = [py |-> "int", v |-> BudgetOf(ts_len)]
    /\ pc' = "start"
    /\ UNCHANGED <<ts_len, p_range, d_range, q_range, idx,
                   best_aic, best_params, best_model, fits, ret>>
    /\ UNCHANGED <<cvars, pvars>>

InitBudget == BudgetInit /\ CacheIdle /\ PeerIdle

NextBudget ==
    \/ ComputeBudget
    \/ Validate
    \/ SkipCandidate
    \/ FitFail
    \/ FitSuccess
    \/ Return

SpecBudget == InitBudget /\ [][NextBudget]_vars

\* the budget has been computed and is not positive
BudgetNotPositive == max_params # None /\ max_params.v <= 0

\* C26: input validation. arima_grid_search raises ValueError before fitting
\* any candidate when the series is empty or max_params is given and <= 0;
\* with the budget min(10, int(0.05 * series_length)) of the orchestration a
\* training series shorter than 20 points gives budget 0, and the search
\* raises instead of returning (None, None); from 20 points on it returns.
C26_InputValidation ==
    /\ pc = "raised" => (fits = <<>> /\ ret = None /\ (ts_len = 0 \/ BudgetNotPositive))
    /\ (Finished /\ (ts_len = 0 \/ BudgetNotPositive)) => pc = "raised"
    /\ (max_params # None /\ ts_len < 20) => max_params.v = 0
    /\ (max_params # None /\ ts_len >= 20) => max_params.v > 0
    /\ (Finished /\ ts_len < 20) => pc = "raised"
    /\ (Finished /\ ts_len >= 20) => pc = "done"

C26_Witness ==
    /\ pc = "raised"
    /\ ts_len = 19
    /\ max_params.v = 0
    /\ Len(candidates) > 0
    /\ fits = <<>>

----------------------------------------------------------------------------
(* What a save replaces and what it keeps                                   *)

ParamFields == {"best_params", "best_aic", "total_params", "data_length",
                "param_ratio", "timestamp", "data_file"}

\* C23: save_params fully replaces the record. After save_params(f, ...) the
\* record under f's key holds exactly the fields best_params, best_aic,
\* total_params, data_length, param_ratio, timestamp and data_file; image and
\* csv entries stored earlier under the same key are gone, and get_image_cache
\* and get_csv_cache return absent for them.
C23_SaveParamsReplaces ==
    (hist # <<>> /\ Last(hist).op = "save_params" /\ Last(hist).key # None) =>
        /\ Last(hist).key \in DOMAIN cache_data
        /\ DOMAIN cache_data[Last(hist).key] = ParamFields
        /\ cache_data[Last(hist).key].best_params = Last(hist).args.best_params
        /\ cache_data[Last(hist).key].timestamp = Last(hist).ts
        /\ get_all_image_cache(Last(hist).f) = EmptyDict
        /\ CsvSubmap(Last(hist).f) = EmptyDict
        /\ \A t \in ImageTypes : get_image_cache(Last(hist).f, t) = None
        /\ \A t \in CsvTypes : get_csv_cache_result(Last(hist).f, t) = None

C23_Witness ==
    /\ Len(hist) = 2
    /\ Prev(hist).op = "save_image_cache"
    /\ Prev(hist).key # None
    /\ Last(hist).op = "save_params"
    /\ Last(hist).f = Prev(hist).f
    /\ get_image_cache(Prev(hist).f, Prev(hist).label) = None
    /\ is_cache_valid(Last(hist).f)

\* the sub-map name an artifact save operation works on
KindOf(op) == IF op = "save_image_cache" THEN "images" ELSE "csv_files"

C24_Step ==
    (nops' = nops + 1 /\ Last(hist').op \in {"save_image_cache", "save_csv_cache"}
        /\ Last(hist').key # None) =>
        LET e == Last(hist')
            kind == KindOf(e.op)
            rec0 == DictGetOrEmpty(cache_data, e.key)
            sub0 == DictGetOrEmpty(rec0, kind)
            rec1 == cache_data'[e.key]
        IN  /\ DOMAIN cache_data' = DOMAIN cache_data \cup {e.key}
            /\ \A k \in DOMAIN cache_data : k # e.key => cache_data'[k] = cache_data[k]
            /\ DOMAIN rec1 = DOMAIN rec0 \cup {kind}
            /\ \A fld \in DOMAIN rec0 : fld # kind => rec1[fld] = rec0[fld]
            /\ DOMAIN rec1[kind] = DOMAIN sub0 \cup {e.label}
            /\ \A t \in DOMAIN sub0 : t # e.label => rec1[kind][t] = sub0[t]
            /\ rec1[kind][e.label].path = e.args.path
            /\ rec1[kind][e.label].description = e.args.description

\* C24: artifact saves are incremental. save_image_cache and save_csv_cache
\* change only the entry of the label in the sub-map of their kind in f's
\* record, creating the record and the sub-map when absent; the params fields,
\* the entries of other labels, the sub-map of the other kind and all other
\* records are unchanged.
C24_ArtifactSavesIncremental == [][C24_Step]_vars

C24_Witness ==
    /\ hist # <<>>
    /\ Last(hist).op = "save_csv_cache"
    /\ Last(hist).label = "other"
    /\ Last(hist).key \in DOMAIN cache_data
    /\ "best_params" \in DOMAIN cache_data[Last(hist).key]
    /\ "images" \in DOMAIN cache_data[Last(hist).key]
    /\ DOMAIN cache_data[Last(hist).key]["csv_files"] = {"prediction", "other"}
    /\ cache_data[Last(hist).key]["csv_files"]["prediction"].timestamp = -1

----------------------------------------------------------------------------
(* Paths with the same basename                                             *)

\* two paths in different directories with the same basename and the same
\* readable content
Twins(f, g) ==
    /\ f.dir # g.dir
    /\ f.name = g.name
    /\ files[f] = files[g]
    /\ files[f] # "missing"

\* what the getters return for path f
Lookup(f) ==
    [params |-> get_cached_params(f),
     valid |-> is_cache_valid(f),
     images |-> get_all_image_cache(f),
     image |-> [t \in ImageTypes |-> get_image_cache(f, t)],
     csv |-> [t \in CsvTypes |-> get_csv_cache_result(f, t)]]

\* C30: cache keys ignore the directory. Two data files in different
\* directories with the same basename and byte-identical content get the same
\* cache key, so parameters or artifacts saved through one path are returned by
\* the getters, and removed by clear_cache, when called with the other path.
C30_KeysIgnoreDirectory ==
    \A f, g \in DataFiles :
        Twins(f, g) =>
            /\ get_cache_key(f) = get_cache_key(g)
            /\ Lookup(f) = Lookup(g)
            /\ (hist # <<>> /\ Last(hist).op = "save_params" /\ Last(hist).f = g) =>
                  /\ get_cached_params(f) # None
                  /\ get_cached_params(f).timestamp = Last(hist).ts
            /\ (hist # <<>> /\ Last(hist).op = "save_image_cache" /\ Last(hist).f = g) =>
                  /\ get_image_cache(f, Last(hist).label) # None
                  /\ get_image_cache(f, Last(hist).label).timestamp = Last(hist).ts
            /\ (hist # <<>> /\ Last(hist).op = "clear_cache" /\ Last(hist).f = g) =>
                  /\ get_cached_params(f) = None
                  /\ ~is_cache_valid(f)

C30_Witness ==
    /\ Len(hist) = 2
    /\ Twins(F1, F2)
    /\ Prev(hist).op = "save_image_cache"
    /\ Prev(hist).f = F1
    /\ Last(hist).op = "clear_cache"
    /\ Last(hist).f = F2
    /\ get_image_cache(F1, Prev(hist).label) = None
    /\ get_cached_params(F1) = None

----------------------------------------------------------------------------
(* Records of content a file no longer has                                  *)

Stale_ModifyFile == nops < MaxArtOps /\ ModifyFile

InitStale == GridIdle /\ ArtInit /\ PeerIdle

NextStale ==
    \/ Art_save_params
    \/ save_image_cache
    \/ Art_clear_cache
    \/ Art_refresh_cache
    \/ Stale_ModifyFile

SpecStale == InitStale /\ [][NextStale]_vars

\* event e is an operation called with a data file
OnFile(e) ==
    /\ e.op \in {"save_params", "save_image_cache", "clear_cache"}
    /\ e.f \in DataFiles

\* event e is clear_cache() with no argument
ClearAll(e) == e.op = "clear_cache" /\ e.f = None

C22_Step ==
    nops' = nops + 1 =>
        \A k \in DOMAIN cache_data :
            LET e == Last(hist')
            IN  /\ k \notin DOMAIN cache_data' =>
                      \/ ClearAll(e)
                      \/ (e.op = "clear_cache" /\ OnFile(e) /\ get_cache_key(e.f) = k)
                /\ (OnFile(e) /\ get_cache_key(e.f) # k) =>
                      (k \in DOMAIN cache_data' /\ cache_data'[k] = cache_data[k])

\* C22: stale records persist. After save_params(f, ...) and a later change of
\* f's content, the record under the old key stays in the store, unchanged,
\* through every following save_params, artifact save and clear_cache(f)
\* issued for the changed file, whose results go under a differently-keyed
\* record; a record is removed only by clear_cache() with no argument, or by
\* clear_cache(f) at a time when f's content hashes to the record's key.
C22_StaleRecordsPersist == [][C22_Step]_vars

C22_Witness ==
    /\ Len(hist) = 2
    /\ Prev(hist).op = "ModifyFile"
    /\ Prev(hist).f = F1
    /\ Prev(hist).old = "c1"
    /\ Last(hist).op = "save_params"
    /\ Last(hist).f = F1
    /\ Last(hist).key # None
    /\ Last(hist).key # PriorKey
    /\ DOMAIN cache_data = {PriorKey, Last(hist).key}
    /\ cache_data[PriorKey] = PriorStore[PriorKey]

----------------------------------------------------------------------------
(* The handlers that offer a cached artifact before regenerating it:       *)
(* src/other_functions.py and src/csv_export.py                            *)

\* get_data_file_path(): the one data file of the configuration
DataFile == F1

\* The files the generators write and the handlers record
TrendPng == [dir |-> "output/images", name |-> "purchase_redeem_trend.png"]
ForecastPng ==
    [dir |-> "output/images", name |-> "arima_purchase_201409_201412_forecast.png"]
ForecastRedeemPng ==
    [dir |-> "output/images", name |-> "arima_purchase_redeem_201409_201412_forecast.png"]
PredictionCsv == [dir |-> "output/data", name |-> "prediction.csv"]
DialogPaths == {TrendPng, ForecastPng, ForecastRedeemPng, PredictionCsv}

\* show_three_way_dialog: ENTER returns the selected option, QUIT returns -1
show_three_way_dialog == {-1, 0, 1, 2}

\* the store after the refresh_cache() every handler starts with
Refreshed ==
    LET l == _load_cache
    IN  IF l.raised = "no" THEN l.data ELSE cache_data

\* the entry of a label in a store, or None
EntryIn(data, f, kind, label) ==
    LET cache_key == get_cache_key(f)
    IN  IF cache_key = None THEN None
        ELSE DictGet(DictGetOrEmpty(DictGetOrEmpty(data, cache_key), kind), label)

\* the store after save_image_cache / save_csv_cache for the data file, the
\* flag taken from the files fs
SavedIn(data, kind, label, path, description, fs) ==
    LET cache_key == get_cache_key(DataFile)
        info == [path |-> path, type |-> label, description |-> description,
                 timestamp |-> nops, exists |-> fs[path] # "missing"]
    IN  IF cache_key = None THEN data
        ELSE WithEntry(data, cache_key, kind, label, info)

\* the cache file after a save of store data
DiskAfterSave(data) ==
    IF get_cache_key(DataFile) = None THEN disk ELSE Written(data)

\* a handler returns without regenerating
ReturnEarly(op, data, shown, choice) ==
    /\ cache_data' = data
    /\ UNCHANGED <<disk, files>>
    /\ Push([op |-> op, shown |-> shown, choice |-> choice,
             regenerated |-> FALSE, raised |-> "no", chart |-> None])

\* handle_plot_with_cache
handle_plot_with_cache ==
    /\ constructed
    /\ nops < MaxDialogOps
    /\ LET data == Refreshed
           image_cache == EntryIn(data, DataFile, "images", "trend")
           shown == image_cache # None /\ image_cache.exists
       IN  \E choice \in (IF shown THEN show_three_way_dialog ELSE {None}),
              plot_trend \in {"ok", "raised"} :
             IF shown /\ choice \in {0, 2}
               THEN ReturnEarly("handle_plot_with_cache", data, shown, choice)
             ELSE IF plot_trend = "raised"
               THEN /\ cache_data' = data
                    /\ UNCHANGED <<disk, files>>
                    /\ Push([op |-> "handle_plot_with_cache", shown |-> shown,
                             choice |-> choice, regenerated |-> TRUE,
                             raised |-> "Exception", chart |-> None])
             ELSE /\ files' = [files EXCEPT ![TrendPng] = "c1"]
                  /\ cache_data' = SavedIn(data, "images", "trend", TrendPng,
                                           "trend chart", files')
                  /\ disk' = DiskAfterSave(cache_data')
                  /\ Push([op |-> "handle_plot_with_cache", shown |-> shown,
                           choice |-> choice, regenerated |-> TRUE,
                           raised |-> "no", chart |-> TrendPng])
    /\ nops' = nops + 1
    /\ UNCHANGED constructed
    /\ UNCHANGED <<gvars, pvars>>

\* arima_predict on store data and files fs: the parameters come from
\* get_or_search_best_arima_params, whose exception is caught; then the chart
\* is written and recorded
arima_predict(data, fs) ==
    IF ~Accepts(get_cached_params_Params, GetCachedParamsArgs_Orchestration)
      THEN [result |-> FALSE, chart |-> None, data |-> data, files |-> fs]
      ELSE LET fs1 == [fs EXCEPT ![ForecastRedeemPng] = "c1"]
           IN  [result |-> TRUE, chart |-> ForecastRedeemPng,
                data |-> SavedIn(data, "images", "prediction", ForecastRedeemPng,
                                 "forecast chart of both series", fs1),
                files |-> fs1]

\* handle_predict_with_cache; arima_param_search is not in a try block
handle_predict_with_cache ==
    /\ constructed
    /\ nops < MaxDialogOps
    /\ LET data == Refreshed
           cache_key == get_cache_key(DataFile)
           param_cache == IF cache_key = None THEN None ELSE DictGet(data, cache_key)
           has_param_cache == param_cache # None /\ "best_params" \in DOMAIN param_cache
           image_cache == EntryIn(data, DataFile, "images", "prediction")
           shown == image_cache # None /\ image_cache.exists
       IN  \E choice \in (IF shown THEN show_three_way_dialog ELSE {None}),
              s \in OrchSeries :
             LET search == GetOrSearch(DataFile, s)
             IN  IF shown /\ choice \in {0, 2}
                   THEN ReturnEarly("handle_predict_with_cache", data, shown, choice)
                 ELSE IF ~has_param_cache /\ search.raised # "no"
                   THEN /\ cache_data' = search.data
                        /\ disk' = search.disk
                        /\ UNCHANGED files
                        /\ Push([op |-> "handle_predict_with_cache", shown |-> shown,
                                 choice |-> choice, regenerated |-> TRUE,
                                 raised |-> search.raised, chart |-> None])
                 ELSE LET start == IF has_param_cache THEN data ELSE search.data
                          predicted == arima_predict(start, files)
                      IN  /\ files' = predicted.files
                          /\ cache_data' = SavedIn(predicted.data, "images", "prediction",
                                                   ForecastPng, "forecast chart", files')
                          /\ disk' = DiskAfterSave(cache_data')
                          /\ Push([op |-> "handle_predict_with_cache", shown |-> shown,
                                   choice |-> choice, regenerated |-> TRUE,
                                   raised |-> "no", chart |-> predicted.chart])
    /\ nops' = nops + 1
    /\ UNCHANGED constructed
    /\ UNCHANGED <<gvars, pvars>>

\* what csv_export() can return: every path to a generated file goes through
\* get_or_search_best_arima_params, whose exception is caught
csv_export ==
    IF Accepts(get_cached_params_Params, GetCachedParamsArgs_Orchestration)
      THEN {TRUE, FALSE} ELSE {FALSE}

\* handle_csv_export_with_cache; get_csv_cache re-checks the flag of the
\* entry and writes the store when it changed
handle_csv_export_with_cache ==
    /\ constructed
    /\ nops < MaxDialogOps
    /\ LET data == Refreshed
           cache_key == get_cache_key(DataFile)
           stored == EntryIn(data, DataFile, "csv_files", "prediction")
           now == IF stored = None THEN FALSE ELSE PathExists(stored.path)
           changed == stored # None /\ stored.exists # now
           checked == IF changed
                        THEN WithFlag(data, cache_key, "csv_files", "prediction", now)
                        ELSE data
           shown == stored # None /\ now
       IN  \E choice \in (IF shown THEN show_three_way_dialog ELSE {None}),
              result \in csv_export :
             IF shown /\ choice \in {0, 2}
               THEN /\ cache_data' = checked
                    /\ disk' = IF changed THEN Written(checked) ELSE disk
                    /\ UNCHANGED files
                    /\ Push([op |-> "handle_csv_export_with_cache", shown |-> shown,
                             choice |-> choice, regenerated |-> FALSE,
                             raised |-> "no", chart |-> None])
             ELSE IF ~result
               THEN /\ cache_data' = checked
                    /\ disk' = IF changed THEN Written(checked) ELSE disk
                    /\ UNCHANGED files
                    /\ Push([op |-> "handle_csv_export_with_cache", shown |-> shown,
                             choice |-> choice, regenerated |-> TRUE,
                             raised |-> "no", chart |-> None])
             ELSE /\ files' = [files EXCEPT ![PredictionCsv] = "c1"]
                  /\ cache_data' = SavedIn(checked, "csv_files", "prediction",
                                           PredictionCsv, "prediction csv", files')
                  /\ disk' = DiskAfterSave(cache_data')
                  /\ Push([op |-> "handle_csv_export_with_cache", shown |-> shown,
                           choice |-> choice, regenerated |-> TRUE,
                           raised |-> "no", chart |-> PredictionCsv])
    /\ nops' = nops + 1
    /\ UNCHANGED constructed
    /\ UNCHANGED <<gvars, pvars>>

\* Stores left by earlier runs of the handlers: with and without parameters
ArtifactsOnly ==
    [data_file |-> DataFile,
     images |-> DictSet(DictSet(EmptyDict, "trend",
                   [path |-> TrendPng, type |-> "trend", description |-> "trend chart",
                    timestamp |-> -1, exists |-> TRUE]), "prediction",
                   [path |-> ForecastPng, type |-> "prediction",
                    description |-> "forecast chart", timestamp |-> -1, exists |-> TRUE]),
     csv_files |-> DictSet(EmptyDict, "prediction",
                   [path |-> PredictionCsv, type |-> "prediction",
                    description |-> "prediction csv", timestamp |-> -1, exists |-> TRUE])]
WithParams ==
    [best_params |-> List(<<2, 1, 3>>), best_aic |-> 123456, total_params |-> 6,
     data_length |-> 184, param_ratio |-> 326, timestamp |-> -1,
     data_file |-> DataFile, images |-> ArtifactsOnly.images,
     csv_files |-> ArtifactsOnly.csv_files]
DialogStores ==
    {EmptyDict, DictSet(EmptyDict, PriorKey, ArtifactsOnly),
     DictSet(EmptyDict, PriorKey, WithParams)}

DialogInit ==
    /\ \E present \in SUBSET DialogPaths :
          files = [f \in DataFiles \cup DialogPaths |->
                      IF f \in DialogPaths /\ f \notin present THEN "missing" ELSE "c1"]
    /\ \E doc \in DialogStores :
          /\ disk = [kind |-> "json", doc |-> doc]
          /\ cache_data = doc
    /\ constructed = TRUE
    /\ nops = 0
    /\ hist = <<>>

InitDialog == GridIdle /\ DialogInit /\ PeerIdle

NextDialog ==
    \/ handle_plot_with_cache
    \/ handle_predict_with_cache
    \/ handle_csv_export_with_cache

SpecDialog == InitDialog /\ [][NextDialog]_vars

\* a handler step in which the dialog was shown and answered with choice
Answered(e) ==
    /\ e.op \in {"handle_plot_with_cache", "handle_predict_with_cache",
                 "handle_csv_export_with_cache"}
    /\ e.shown

\* C27: when the cached artifact exists and the dialog is left with anything
\* but option 1 (view 0, cancel 2, q -1), nothing is regenerated and neither
\* the artifact files nor the cache file change
C27_Step ==
    (nops' = nops + 1 /\ Answered(Last(hist')) /\ Last(hist').choice # 1)
        => /\ ~Last(hist').regenerated
           /\ files' = files
           /\ disk' = disk
C27_OnlyOptionOneRegenerates == [][C27_Step]_vars

\* C28: after handle_predict_with_cache completed a regeneration the entry
\* 'prediction' records the file arima_predict writes, flagged as existing,
\* so that the next call finds it
C28_Step ==
    (/\ nops' = nops + 1
     /\ Last(hist').op = "handle_predict_with_cache"
     /\ Last(hist').regenerated
     /\ Last(hist').raised = "no")
        => LET e == EntryIn(cache_data', DataFile, "images", "prediction")
           IN  /\ e # None
               /\ e.path = ForecastRedeemPng
               /\ e.exists
----------------------------------------------------------------------------
(* The stationarity verdict of utils/differencing_validator.py             *)

\* Test methods a caller can name; only 'adf' and 'kpss' are run
TestMethods == {"adf", "kpss", "pp"}
RunMethods == {"adf", "kpss"}

\* test_methods: lists of distinct methods
MethodLists ==
    {m \in UNION {[1..n -> TestMethods] : n \in 0..Cardinality(TestMethods)} :
        \A i, j \in DOMAIN m : m[i] = m[j] => i = j}

\* p-values in hundredths, and NaN; the level 0.05 of both tests
Alpha == 5
NaN == [py |-> "nan"]
PValues == {[py |-> "float", v |-> n] : n \in {1, 5, 10}} \cup {NaN}
Lt(x, n) == x.py = "float" /\ x.v < n
Ge(x, n) == x.py = "float" /\ x.v >= n

\* what one test gives: its result dict, or an exception
TestOutcomes == {[p |-> x] : x \in PValues} \cup {[raised |-> "Exception"]}

\* perform_stationarity_tests: a key for each method that was run, None for
\* a test that raised
perform_stationarity_tests(test_methods, outcome) ==
    LET ran == {test_methods[i] : i \in DOMAIN test_methods} \cap RunMethods
    IN  [m \in ran |-> IF "raised" \in DOMAIN outcome[m] THEN None ELSE outcome[m]]

\* the vote of one method in check_stationarity
VotesStationary(method, result) ==
    \/ method = "adf" /\ Lt(result.p, Alpha)
    \/ method = "kpss" /\ Ge(result.p, Alpha)

RECURSIVE CountVotes(_, _, _)
\* the loop of check_stationarity from position i: the two counters
CountVotes(test_results, test_methods, i) ==
    IF i > Len(test_methods) THEN [stationary_count |-> 0, total_tests |-> 0]
    ELSE LET method == test_methods[i]
             rest == CountVotes(test_results, test_methods, i + 1)
         IN  IF method \in DOMAIN test_results /\ test_results[method] # None
               THEN [stationary_count |-> rest.stationary_count +
                        (IF VotesStationary(method, test_results[method]) THEN 1 ELSE 0),
                     total_tests |-> rest.total_tests + 1]
               ELSE rest

\* check_stationarity: stationary_count / total_tests >= 0.5, False without
\* tests
check_stationarity(test_results, test_methods) ==
    LET c == CountVotes(test_results, test_methods, 1)
    IN  IF c.total_tests > 0 THEN 2 * c.stationary_count >= c.total_tests ELSE FALSE

\* one round of validate_differencing: the tests are run and the verdict
\* taken
validate_differencing ==
    /\ nops < MaxVoteOps
    /\ \E test_methods \in MethodLists, outcome \in [RunMethods -> TestOutcomes] :
          LET test_results == perform_stationarity_tests(test_methods, outcome)
          IN  Push([op |-> "validate_differencing", test_methods |-> test_methods,
                    test_results |-> test_results,
                    is_stationary |-> check_stationarity(test_results, test_methods)])
    /\ nops' = nops + 1
    /\ UNCHANGED <<files, disk, constructed, cache_data>>
    /\ UNCHANGED <<gvars, pvars>>

InitVote == GridIdle /\ CacheIdle /\ PeerIdle

NextVote == validate_differencing

SpecVote == InitVote /\ [][NextVote]_vars

\* the tests of a round that produced a result, and those voting stationary
Counted(e) == {m \in DOMAIN e.test_results : e.test_results[m] # None}
Stationary(e) ==
    {m \in Counted(e) : \/ m = "adf" /\ Lt(e.test_results[m].p, Alpha)
                        \/ m = "kpss" /\ Ge(e.test_results[m].p, Alpha)}

\* C29: the verdict is stationary iff more than half of the tests that
\* produced a result vote stationary; with no such test it is non-stationary
C29_MajorityRule ==
    \A i \in DOMAIN hist :
        hist[i].op = "validate_differencing" =>
            (hist[i].is_stationary <=>
                2 * Cardinality(Stationary(hist[i])) > Cardinality(Counted(hist[i])))

----------------------------------------------------------------------------
(* Two processes, each with its own CacheManager, on one cache file        *)

\* The first process is the one of cache_data; its save_params within the
\* depth of this model
A_save_params == nops < MaxPeerOps /\ save_params

\* save_params of the second process, were it to reload the file first
B_save_params_Reload ==
    /\ nops < MaxPeerOps
    /\ \E f \in DataFiles, in \in ParamInputs :
          /\ Push([op |-> "B.save_params", f |-> f, args |-> in,
                   key |-> get_cache_key(f), ts |-> nops])
          /\ peer_data' = SaveParamsStore(Refreshed, f, in, nops)
          /\ disk' = SaveParamsDisk(peer_data', f)
    /\ nops' = nops + 1
    /\ UNCHANGED <<files, constructed, cache_data>>
    /\ UNCHANGED gvars

\* save_params of the second process: its own map is updated and written
B_save_params ==
    /\ nops < MaxPeerOps
    /\ \E f \in DataFiles, in \in ParamInputs :
          /\ Push([op |-> "B.save_params", f |-> f, args |-> in,
                   key |-> get_cache_key(f), ts |-> nops])
          /\ peer_data' = SaveParamsStore(peer_data, f, in, nops)
          /\ disk' = SaveParamsDisk(peer_data', f)
    /\ nops' = nops + 1
    /\ UNCHANGED <<files, constructed, cache_data>>
    /\ UNCHANGED gvars

\* save_image_cache of the second process
B_save_image_cache ==
    /\ nops < MaxPeerOps
    /\ \E f \in ArtFiles, image_type \in ImageTypes, in \in ArtInputs :
          LET cache_key == get_cache_key(f)
              info == [path |-> in.path, type |-> image_type,
                       description |-> in.description,
                       timestamp |-> nops, exists |-> PathExists(in.path)]
          IN  /\ Push([op |-> "B.save_image_cache", f |-> f, label |-> image_type,
                       args |-> in, key |-> cache_key, ts |-> nops])
              /\ IF cache_key = None
                   THEN UNCHANGED <<peer_data, disk>>
                   ELSE /\ peer_data' = WithEntry(peer_data, cache_key, "images",
                                                  image_type, info)
                        /\ disk' = Written(peer_data')
    /\ nops' = nops + 1
    /\ UNCHANGED <<files, constructed, cache_data>>
    /\ UNCHANGED gvars

\* Both instances were constructed over the same cache file before either
\* wrote
InitPeers == GridIdle /\ ArtInit /\ peer_data = cache_data

NextPeers ==
    \/ A_save_params
    \/ B_save_params
    \/ B_save_image_cache

SpecPeers == InitPeers /\ [][NextPeers]_vars

\* a save of either process that found its key
PeerSave(e) ==
    /\ e.op \in {"save_params", "B.save_params", "B.save_image_cache"}
    /\ e.key # None

\* C21, the mechanism: a save writes the whole file from the map of its own
\* process: apart from the key saved, the file holds afterwards the keys
\* that map held, whatever the file held before
C21_Step ==
    (nops' = nops + 1 /\ PeerSave(Last(hist')))
        => LET e == Last(hist')
               own == IF e.op = "save_params" THEN cache_data ELSE peer_data
           IN  /\ e.key \in DOMAIN disk'.doc
               /\ \A k \in (DOMAIN disk'.doc \cup DOMAIN disk.doc \cup DOMAIN own)
                          \ {e.key} :
                     /\ k \in DOMAIN disk'.doc <=> k \in DOMAIN own
                     /\ k \in DOMAIN own => disk'.doc[k] = ToJson(own)[k]
C21_LastWriterWins == [][C21_Step]_vars

\* C21, the interleaving: the first process saved parameters for one file,
\* the second saved for another file, both found their key and wrote, and
\* the cache file lacks the record of the first
C21_Witness ==
    /\ Len(hist) = 2
    /\ hist[1].op = "save_params"
    /\ hist[2].op \in {"B.save_params", "B.save_image_cache"}
    /\ hist[1].key # None
    /\ hist[2].key # None
    /\ hist[1].f # hist[2].f
    /\ hist[1].key \notin DOMAIN disk.doc
    /\ hist[1].key \in DOMAIN cache_data

====
